---- MODULE Spec2Model ----
(***************************************************************************)
(* Mercury2 hardware manager: device reservation (Driver.reserve_device /  *)
(* Driver.free_device), the pipeline lock built on it (reserve_pipeline /  *)
(* free_pipeline) and the pipeline's service and session registration.     *)
(***************************************************************************)
EXTENDS Integers, Sequences, FiniteSets, TLC

VARIABLES
  allow_concurrent_use,  \* Driver.allow_concurrent_use, per device (configuration)
  locked,                \* Driver._locked, per device
  use_count,             \* Driver._use_count, per device
  in_use,                \* Pipeline.in_use, per pipeline
  services,              \* Pipeline.services, per pipeline: set of <<type, id>>
  active_services,       \* Pipeline.active_services, per pipeline: type -> id or NoService
  current_session,       \* Pipeline.current_session, per pipeline: session or NoSession
  hist,                  \* per device: the calls made on it so far (observer of the driver test)
  commands,              \* per parse_command call: the Command, its body and its deferred
  permissions,           \* PermissionManager.permissions, per user: record or NoRecord
  loads,                 \* per user: the deferred of the add_user_permissions call for it
  setup,                 \* the run of Pipeline.run_setup_commands
  constructed,           \* per constructed pipeline: its devices, input and output device
  associated_pipelines,  \* Driver.associated_pipelines, per device: pipeline ids as registered
  calls,                 \* the calls made on collaborators by the last write or registration
  devices,               \* DeviceManager.devices: the ids of the initialized drivers
  workers,               \* per worker thread: its position in Driver.reserve_device
  last                   \* the call that returned last: [op, tgt, res, arg]

vars == <<allow_concurrent_use, locked, use_count, in_use, services, active_services,
          current_session, hist, commands, permissions, loads, setup, constructed,
          associated_pipelines, calls, devices, workers, last>>

hwVars == <<allow_concurrent_use, locked, use_count, in_use, services, active_services,
            current_session, hist>>
cmdVars == <<commands, permissions, loads>>
setupVars == <<setup>>
consVars == <<constructed, associated_pipelines>>
ioVars == <<calls, devices>>

-----------------------------------------------------------------------------
(* Bounds of the model *)

\* direct reserve_device() calls on a device stop once its use count is MaxUse
MaxUse == 2

\* the worker threads that run command bodies at the same time
MaxWorkers == 2

\* the driver test makes at most MaxOps calls on one device
MaxOps == 4

\* at most MaxCmds commands are submitted to the parser
MaxCmds == 2

\* a pipeline is configured with at most MaxSetup setup commands
MaxSetup == 3

\* a pipeline configuration lists at most MaxCfgLen devices
MaxCfgLen == 2

\* the longest device configuration handed to the device manager
MaxDevCfg == 2

\* times (of generation, of a purge) and ages run from 0 to MaxTime
MaxTime == 2

-----------------------------------------------------------------------------
(* Configuration *)

\* the devices loaded into the device manager
Devices == {"d1", "d2", "d3", "d4"}

\* the configured pipelines, each with its devices in the order they are locked
PipelineDevices ==
  [pA |-> <<"d1", "d2">>,
   pB |-> <<"d3", "d1">>,
   pC |-> <<"d4", "d2", "d3">>]

Pipelines == DOMAIN PipelineDevices

\* the devices of a pipeline, as a set
DeviceSet(p) == {PipelineDevices[p][i] : i \in 1..Len(PipelineDevices[p])}

\* the devices the driver test drives on their own
DriverTestDevices == {"d1", "d2"}

-----------------------------------------------------------------------------
(* Driver: the reservation primitive, as functions of the device state     *)
(* st = [locked |-> ..., use_count |-> ...]                                *)

DevState == [locked |-> locked, use_count |-> use_count]

is_locked(st, d) == st.locked[d]

is_active(st, d) == st.use_count[d] # 0

\* reserve_device without the check of the lock: it never raises
reserve_device_no_check(st, d) ==
  [raised |-> FALSE,
   st |-> [locked |-> IF ~allow_concurrent_use[d]
                      THEN [st.locked EXCEPT ![d] = TRUE]
                      ELSE st.locked,
           use_count |-> [st.use_count EXCEPT ![d] = @ + 1]]]

\* reserve_device that forgets to set the lock
reserve_device_no_lock(st, d) ==
  IF ~allow_concurrent_use[d] /\ is_locked(st, d)
  THEN [raised |-> TRUE, st |-> st]
  ELSE [raised |-> FALSE,
        st |-> [locked |-> st.locked,
                use_count |-> [st.use_count EXCEPT ![d] = @ + 1]]]

\* reserve_device that ignores allow_concurrent_use
reserve_device_exclusive(st, d) ==
  IF is_locked(st, d)
  THEN [raised |-> TRUE, st |-> st]
  ELSE [raised |-> FALSE,
        st |-> [locked |-> [st.locked EXCEPT ![d] = TRUE],
                use_count |-> [st.use_count EXCEPT ![d] = @ + 1]]]

\* reserve_device that counts the refused call before it raises
reserve_device_counts_refusal(st, d) ==
  IF ~allow_concurrent_use[d] /\ is_locked(st, d)
  THEN [raised |-> TRUE,
        st |-> [locked |-> st.locked,
                use_count |-> [st.use_count EXCEPT ![d] = @ + 1]]]
  ELSE [raised |-> FALSE,
        st |-> [locked |-> IF ~allow_concurrent_use[d]
                           THEN [st.locked EXCEPT ![d] = TRUE]
                           ELSE st.locked,
                use_count |-> [st.use_count EXCEPT ![d] = @ + 1]]]

\* Driver.reserve_device: [raised, st]; raised is TRUE for DeviceInUse
reserve_device(st, d) ==
  IF ~allow_concurrent_use[d] /\ is_locked(st, d)
  THEN [raised |-> TRUE, st |-> st]
  ELSE [raised |-> FALSE,
        st |-> [locked |-> IF ~allow_concurrent_use[d]
                           THEN [st.locked EXCEPT ![d] = TRUE]
                           ELSE st.locked,
                use_count |-> [st.use_count EXCEPT ![d] = @ + 1]]]

\* free_device that lowers the use count and leaves the lock set
free_device_keeps_lock(st, d) ==
  [locked |-> st.locked,
   use_count |-> [st.use_count EXCEPT ![d] = IF @ - 1 < 0 THEN 0 ELSE @ - 1]]

\* free_device that clears the lock and leaves the use count
free_device_unlock_only(st, d) ==
  [locked |-> IF ~allow_concurrent_use[d]
              THEN [st.locked EXCEPT ![d] = FALSE]
              ELSE st.locked,
   use_count |-> st.use_count]

\* free_device without the floor at zero
free_device_no_floor(st, d) ==
  [locked |-> IF ~allow_concurrent_use[d]
              THEN [st.locked EXCEPT ![d] = FALSE]
              ELSE st.locked,
   use_count |-> [st.use_count EXCEPT ![d] = @ - 1]]

\* free_device that does nothing
free_device_noop(st, d) == st

\* Driver.free_device: the device state after the call (it never raises)
free_device(st, d) ==
  [locked |-> IF ~allow_concurrent_use[d]
              THEN [st.locked EXCEPT ![d] = FALSE]
              ELSE st.locked,
   use_count |-> [st.use_count EXCEPT ![d] = IF @ - 1 < 0 THEN 0 ELSE @ - 1]]

-----------------------------------------------------------------------------
(* Pipeline: the lock over the pipeline and all of its devices             *)

\* the rollback of reserve_pipeline: free every device locked in this attempt
RECURSIVE free_all(_, _, _)
free_all(st, devs, i) ==
  IF i > Len(devs) THEN st
  ELSE free_all(free_device(st, devs[i]), devs, i + 1)

\* the locking loop of reserve_pipeline over devs[i..], got = locked so far
RECURSIVE reserve_all(_, _, _, _)
reserve_all(st, devs, i, got) ==
  IF i > Len(devs) THEN [raised |-> FALSE, st |-> st]
  ELSE LET r == reserve_device(st, devs[i])
       IN IF r.raised
          THEN [raised |-> TRUE, st |-> free_all(st, got, 1)]
          ELSE reserve_all(r.st, devs, i + 1, Append(got, devs[i]))

\* reserve_pipeline without the check of in_use
reserve_pipeline_no_guard(st, inuse, p) ==
  LET r == reserve_all(st, PipelineDevices[p], 1, <<>>)
  IN IF r.raised
     THEN [res |-> "PipelineInUse", in_use |-> [inuse EXCEPT ![p] = FALSE], st |-> r.st]
     ELSE [res |-> "ok", in_use |-> [inuse EXCEPT ![p] = TRUE], st |-> r.st]

\* Pipeline.reserve_pipeline: [res, in_use, st]
reserve_pipeline(st, inuse, p) ==
  IF inuse[p]
  THEN [res |-> "PipelineInUse", in_use |-> inuse, st |-> st]
  ELSE LET r == reserve_all(st, PipelineDevices[p], 1, <<>>)
       IN IF r.raised
          THEN [res |-> "PipelineInUse", in_use |-> [inuse EXCEPT ![p] = FALSE], st |-> r.st]
          ELSE [res |-> "ok", in_use |-> [inuse EXCEPT ![p] = TRUE], st |-> r.st]

\* Pipeline.free_pipeline: [in_use, st]
free_pipeline(st, inuse, p) ==
  [in_use |-> [inuse EXCEPT ![p] = FALSE],
   st |-> free_all(st, PipelineDevices[p], 1)]

-----------------------------------------------------------------------------
(* Pipeline: services and sessions                                         *)

\* a call made on a collaborator
Call(to, method, args) == [to |-> to, method |-> method, args |-> args]

NoSession == "none"

NoService == "none"

\* the service types and ids devices may register
ServiceTypes == {"tracker", "logger"}

ServiceIds == {"sgp4", "basic"}

\* the order in which the active services of a reservation are walked
TypeOrder == <<"tracker", "logger">>

\* the sessions the session coordinator may create
Sessions == {"s1", "s2"}

\* the active_services of a reservation configuration: type -> id, or
\* NoService for a type the configuration does not name
SessionConfigs == [ServiceTypes -> ServiceIds \cup {NoService}]

\* the pipeline the session tests work on
SessionPipelines == {"pA"}

register_service_one_per_type(svcs, t, id) ==
  IF <<t, id>> \in svcs
  THEN [res |-> "ServiceAlreadyRegistered", services |-> svcs]
  ELSE [res |-> "ok", services |-> {e \in svcs : e[1] # t} \cup {<<t, id>>}]

\* Pipeline.register_service: [res, services]
register_service(svcs, t, id) ==
  IF <<t, id>> \in svcs
  THEN [res |-> "ServiceAlreadyRegistered", services |-> svcs]
  ELSE [res |-> "ok", services |-> svcs \cup {<<t, id>>}]

\* the copy of a session's active services into the pipeline, type by type,
\* stopping at the first selection that is not a registered service
RECURSIVE set_active_services(_, _, _, _)
set_active_services(svcs, act, cfg, i) ==
  IF i > Len(TypeOrder) THEN [raised |-> FALSE, active |-> act]
  ELSE LET t == TypeOrder[i]
       IN IF cfg[t] = NoService
          THEN set_active_services(svcs, act, cfg, i + 1)
          ELSE IF <<t, cfg[t]>> \in svcs
               THEN set_active_services(svcs, [act EXCEPT ![t] = cfg[t]], cfg, i + 1)
               ELSE [raised |-> TRUE, active |-> act]

\* register_session that replaces a session already registered
register_session_overwrites(cur, svcs, act, s, cfg) ==
  LET r == set_active_services(svcs, act, cfg, 1)
  IN IF r.raised
     THEN [res |-> "ServiceInvalid", current_session |-> NoSession, active |-> r.active]
     ELSE [res |-> "ok", current_session |-> s, active |-> r.active]

\* register_session that keeps the session it set when a selection is invalid
register_session_no_rollback(cur, svcs, act, s, cfg) ==
  IF cur # NoSession
  THEN [res |-> "SessionAlreadyRegistered", current_session |-> cur, active |-> act]
  ELSE LET r == set_active_services(svcs, act, cfg, 1)
       IN IF r.raised
          THEN [res |-> "ServiceInvalid", current_session |-> s, active |-> r.active]
          ELSE [res |-> "ok", current_session |-> s, active |-> r.active]

\* Pipeline.register_session: [res, current_session, active]
register_session(cur, svcs, act, s, cfg) ==
  IF cur # NoSession
  THEN [res |-> "SessionAlreadyRegistered", current_session |-> cur, active |-> act]
  ELSE LET r == set_active_services(svcs, act, cfg, 1)
       IN IF r.raised
          THEN [res |-> "ServiceInvalid", current_session |-> NoSession, active |-> r.active]
          ELSE [res |-> "ok", current_session |-> s, active |-> r.active]

\* no service: what load_service hands back when it raises
NoLoaded == <<"none", "none">>

\* load_service that falls back on a registered service of the type when the
\* session selected none
load_service_any_registered(svcs, act, t) ==
  IF act[t] = NoService
  THEN IF \E id \in ServiceIds : <<t, id>> \in svcs
       THEN [res |-> "ok", service |-> CHOOSE e \in svcs : e[1] = t]
       ELSE [res |-> "ServiceTypeNotFound", service |-> NoLoaded]
  ELSE IF <<t, act[t]>> \notin svcs
       THEN [res |-> "ServiceInvalid", service |-> NoLoaded]
       ELSE [res |-> "ok", service |-> <<t, act[t]>>]

\* Pipeline.load_service: [res, service]
load_service(svcs, act, t) ==
  IF act[t] = NoService
  THEN [res |-> "ServiceTypeNotFound", service |-> NoLoaded]
  ELSE IF <<t, act[t]>> \notin svcs
       THEN [res |-> "ServiceInvalid", service |-> NoLoaded]
       ELSE [res |-> "ok", service |-> <<t, act[t]>>]

\* the input device each pipeline is configured with ("none": no input device)
PipelineInput == [p \in Pipelines |-> CASE p = "pA" -> "d1" [] p = "pB" -> "d3" [] OTHER -> "none"]

\* write_pipeline_output that does not look at current_session
write_pipeline_output_unchecked(cur, output_data) ==
  <<Call(cur, "write_to_output_stream", <<output_data>>)>>

\* Pipeline.write_pipeline_output: the calls it makes on the session
write_pipeline_output(cur, output_data) ==
  IF cur = NoSession THEN <<>>
  ELSE <<Call(cur, "write_to_output_stream", <<output_data>>)>>

\* Pipeline.write_telemetry_datum: the calls it makes on the session
write_telemetry_datum(cur, source_id, stream, timestamp, telemetry_datum) ==
  IF cur = NoSession THEN <<>>
  ELSE <<Call(cur, "write_telemetry_datum",
              <<source_id, stream, timestamp, telemetry_datum>>)>>

\* Pipeline.write_to_pipeline: the calls it makes on the input device
write_to_pipeline(input_device, input_data) ==
  IF input_device = "none" THEN <<>>
  ELSE <<Call(input_device, "write_to_device", <<input_data>>)>>

-----------------------------------------------------------------------------
(* DeviceManager: the registry of device drivers                           *)

\* the entries of a device configuration: the id of the device and what
\* loading its driver leads to
ManagedIds == {"d1", "d2"}
\* what the 'driver' option of an entry names: a class that can be built
\* ("ok"), a package that cannot be imported, a package without the module
\* of its name, a module without the class, a class whose constructor raises
DriverLoads == {"ok", "no_package", "no_module", "no_class", "init_raises"}

\* the import of the driver of an entry and the call of its constructor in
\* _initialize_devices: "ok", or the exception that ends the initialization.
\* ImportError is turned into DriverNotFound; getattr on the package raises
\* AttributeError when the module is not in it; for a missing class the
\* logging call adds the module object to a string and raises TypeError
\* before DriverNotFound is raised; an exception of the constructor is
\* turned into DriverInitError
load_driver(driver) ==
  CASE driver = "ok" -> "ok"
    [] driver = "no_package" -> "DriverNotFound"
    [] driver = "no_module" -> "AttributeError"
    [] driver = "no_class" -> "TypeError"
    [] driver = "init_raises" -> "DriverInitError"
DeviceConfigEntries == [id : ManagedIds, driver : DriverLoads]

\* the 'devices' option of the configuration: a list of entries, or absent
NoDeviceSettings == <<[id |-> "absent", driver |-> "absent"]>>
\* the configuration of a call that ended before it read the 'devices' option
SettingsNotRead == <<[id |-> "unread", driver |-> "unread"]>>
DeviceSettings ==
  UNION {[1..n -> DeviceConfigEntries] : n \in 0..MaxDevCfg} \cup {NoDeviceSettings}

\* DeviceManager._validate_devices: a list of at least one entry
validate_devices(device_configuration) == Len(device_configuration) >= 1

\* the loop of _initialize_devices from entry i on
RECURSIVE initialize_each(_, _, _)
initialize_each(devs, device_settings, i) ==
  IF i > Len(device_settings) THEN [res |-> "ok", devices |-> devs]
  ELSE LET device_config == device_settings[i]
       IN IF device_config.id \in devs
          THEN [res |-> "DeviceConfigInvalid", devices |-> devs]
          ELSE IF load_driver(device_config.driver) # "ok"
               THEN [res |-> load_driver(device_config.driver), devices |-> devs]
               ELSE initialize_each(devs \cup {device_config.id}, device_settings, i + 1)

\* _initialize_devices without the check that no driver was loaded yet
initialize_devices_again(devs, device_settings) ==
  IF device_settings = NoDeviceSettings \/ ~validate_devices(device_settings)
  THEN [res |-> "DeviceConfigInvalid", devices |-> devs]
  ELSE initialize_each(devs, device_settings, 1)

\* DeviceManager._initialize_devices: [res, devices]
initialize_devices(devs, device_settings) ==
  IF Cardinality(devs) > 0
  THEN [res |-> "DevicesAlreadyInitialized", devices |-> devs]
  ELSE IF device_settings = NoDeviceSettings \/ ~validate_devices(device_settings)
       THEN [res |-> "DeviceConfigInvalid", devices |-> devs]
       ELSE initialize_each(devs, device_settings, 1)

\* DeviceManager.get_device_driver: [res, driver]; a driver is named by the
\* id of its device
get_device_driver(devs, device_id) ==
  IF device_id \notin devs
  THEN [res |-> "DeviceNotFound", driver |-> "none"]
  ELSE [res |-> "ok", driver |-> device_id]

-----------------------------------------------------------------------------
(* The observer of the driver test: what has been called on a device       *)

Untracked == [since |-> "untracked", nres |-> 0, nfree |-> 0, underflow |-> FALSE]

Tracked == [since |-> "new", nres |-> 0, nfree |-> 0, underflow |-> FALSE]

\* after a reserve_device() call on the device: raised tells how it ended
HistReserve(h, raised) ==
  IF h.since = "untracked" THEN h
  ELSE [h EXCEPT !.since = IF raised THEN @ ELSE "reserved", !.nres = @ + 1]

\* after a free_device() call on the device
HistFree(h) ==
  IF h.since = "untracked" THEN h
  ELSE [h EXCEPT !.since = "freed", !.nfree = @ + 1,
                 !.underflow = @ \/ (h.nfree >= h.nres)]

\* the calls the observer still lets through
HistRoom(h) == h.since = "untracked" \/ h.nres + h.nfree < MaxOps

\* the direct reserve_device() calls still made on d
ReserveRoom(d) ==
  IF hist[d].since = "untracked" THEN use_count[d] < MaxUse ELSE HistRoom(hist[d])

-----------------------------------------------------------------------------
(* The command model: Command (command.py) and CommandParser (parser.py).   *)
(* A JSON value is [t, s, o]: its type, its text when it is a scalar and    *)
(* its members <<key, value>> when it is an object (or an array, keyed by   *)
(* position).  A python dictionary is the set of its <<key, value>> items,  *)
(* and None is the JSON null.  The two timestamps of a response are left    *)
(* out of the envelope.                                                     *)

JStr(text) == [t |-> "string", s |-> text, o |-> {}]
JNum(text) == [t |-> "number", s |-> text, o |-> {}]
JObj(items) == [t |-> "object", s |-> "", o |-> items]
JArr(items) == [t |-> "array", s |-> "", o |-> items]
None == [t |-> "null", s |-> "", o |-> {}]

HasKey(items, k) == \E e \in items : e[1] = k
Item(items, k) == (CHOOSE e \in items : e[1] = k)[2]

\* dict(a.items() + b.items()): the items of b win
DictMerge(a, b) == {e \in a : ~HasKey(b, e[1])} \cup b

\* python truth of an attribute that is None or a text
Truthy(v) == v.t = "string" /\ v.s # ""

\* the raw commands submitted to the parser
RawCommands ==
  { "{\"command\":\"station_time\"}",
    "{\"command\":\"station_time\",\"parameters\":{\"test_parameter\":5}}",
    "{\"command\":\"nonexistent\",\"parameters\":{\"x\":5}}",
    "{\"command\":\"station_time\",\"device_id\":\"d1\"}",
    "{\"command\":\"nonexistent\",\"device_id\":\"d1\"}",
    "{\"command\":\"station_time\",\"device_id\":\"\"}",
    "{'este': 'no es JSON'}",
    "{\"message\":\"This schema is invalid\"}",
    "[\"station_time\"]",
    "{\"command\":5}",
    "{\"command\":\"station_time\",\"device_id\":7}",
    "{\"command\":\"station_time\",\"parameters\":\"x\"}" }

\* json.loads on the raw commands: raised is ValueError
json_loads(raw) ==
  CASE raw = "{\"command\":\"station_time\"}" ->
         [raised |-> FALSE, value |-> JObj({<<"command", JStr("station_time")>>})]
    [] raw = "{\"command\":\"station_time\",\"parameters\":{\"test_parameter\":5}}" ->
         [raised |-> FALSE,
          value |-> JObj({<<"command", JStr("station_time")>>,
                          <<"parameters", JObj({<<"test_parameter", JNum("5")>>})>>})]
    [] raw = "{\"command\":\"nonexistent\",\"parameters\":{\"x\":5}}" ->
         [raised |-> FALSE,
          value |-> JObj({<<"command", JStr("nonexistent")>>,
                          <<"parameters", JObj({<<"x", JNum("5")>>})>>})]
    [] raw = "{\"command\":\"station_time\",\"device_id\":\"d1\"}" ->
         [raised |-> FALSE,
          value |-> JObj({<<"command", JStr("station_time")>>, <<"device_id", JStr("d1")>>})]
    [] raw = "{\"command\":\"nonexistent\",\"device_id\":\"d1\"}" ->
         [raised |-> FALSE,
          value |-> JObj({<<"command", JStr("nonexistent")>>, <<"device_id", JStr("d1")>>})]
    [] raw = "{\"command\":\"station_time\",\"device_id\":\"\"}" ->
         [raised |-> FALSE,
          value |-> JObj({<<"command", JStr("station_time")>>, <<"device_id", JStr("")>>})]
    [] raw = "{\"message\":\"This schema is invalid\"}" ->
         [raised |-> FALSE, value |-> JObj({<<"message", JStr("This schema is invalid")>>})]
    [] raw = "[\"station_time\"]" ->
         [raised |-> FALSE, value |-> JArr({<<"0", JStr("station_time")>>})]
    [] raw = "{\"command\":5}" ->
         [raised |-> FALSE, value |-> JObj({<<"command", JNum("5")>>})]
    [] raw = "{\"command\":\"station_time\",\"device_id\":7}" ->
         [raised |-> FALSE,
          value |-> JObj({<<"command", JStr("station_time")>>, <<"device_id", JNum("7")>>})]
    [] raw = "{\"command\":\"station_time\",\"parameters\":\"x\"}" ->
         [raised |-> FALSE,
          value |-> JObj({<<"command", JStr("station_time")>>, <<"parameters", JStr("x")>>})]
    [] OTHER -> [raised |-> TRUE, value |-> None]

\* the command schema of validate_command (draft 3): an object with a
\* required text command, an optional text device_id, optional object parameters
command_schema(v) ==
  /\ v.t = "object"
  /\ HasKey(v.o, "command") /\ Item(v.o, "command").t = "string"
  /\ HasKey(v.o, "device_id") => Item(v.o, "device_id").t = "string"
  /\ HasKey(v.o, "parameters") => Item(v.o, "parameters").t = "object"

\* a raised exception: its class, str() of it, and its error_parameters
\* attribute when the class has one (CommandError)
NoFailure == [type |-> "none", message |-> "", has_error_parameters |-> FALSE,
              error_parameters |-> None]
Exc(type, message) == [type |-> type, message |-> message, has_error_parameters |-> FALSE,
                       error_parameters |-> None]
CommandError(message, error_data) ==
  [type |-> "CommandError", message |-> message, has_error_parameters |-> TRUE,
   error_parameters |-> error_data]

MalformedMessage == "The submitted command contained a malformed JSON string."
InvalidSchemaMessage ==
  "The submitted command did not conform to the command schema for command type: Command"
UnboundHandlerMessage == "local variable 'command_handler' referenced before assignment"
NotLocatedMessage == "The received command could not be located in the system command handler."
NoneItemsMessage == "'NoneType' object has no attribute 'items'"

\* Command.__init__
Command(request, raw) ==
  [request |-> request, command_raw |-> raw, command_json |-> None, valid |-> FALSE,
   command |-> None, device_id |-> None, parameters |-> JObj({})]

\* Command._populate_command_attributes
populate_command_attributes(c) ==
  IF c.valid /\ c.command_json # None
  THEN [c EXCEPT !.command = Item(c.command_json.o, "command"),
                 !.device_id = IF HasKey(c.command_json.o, "device_id")
                               THEN Item(c.command_json.o, "device_id") ELSE None,
                 !.parameters = IF HasKey(c.command_json.o, "parameters")
                                THEN Item(c.command_json.o, "parameters") ELSE None]
  ELSE c

\* Command.validate_command: the failure its deferred is fired with
\* (NoFailure when it succeeds) and the command afterwards
validate_command_accepts_all(c) ==
  LET parsed == json_loads(c.command_raw)
  IN [failure |-> NoFailure,
      command |-> [c EXCEPT !.command_json = parsed.value, !.valid = TRUE]]

validate_command(c) ==
  LET parsed == json_loads(c.command_raw)
  IN IF parsed.raised
     THEN [failure |-> Exc("CommandMalformed", MalformedMessage), command |-> c]
     ELSE IF ~command_schema(parsed.value)
          THEN [failure |-> Exc("CommandInvalidSchema", InvalidSchemaMessage),
                command |-> [c EXCEPT !.command_json = parsed.value]]
          ELSE [failure |-> NoFailure,
                command |-> populate_command_attributes(
                              [c EXCEPT !.command_json = parsed.value, !.valid = TRUE])]

\* Command.build_command_response: the request and the dictionary that is
\* written out as the JSON response
build_command_response_always_okay(c, success, command_results) ==
  [request |-> c.request,
   response |-> JObj({<<"status", JStr("okay")>>, <<"result", command_results>>}
                     \cup (IF Truthy(c.device_id) THEN {<<"device_id", c.device_id>>} ELSE {}))]

build_command_response(c, success, command_results) ==
  [request |-> c.request,
   response |-> JObj({<<"status", JStr(IF success THEN "okay" ELSE "error")>>,
                      <<"result", command_results>>}
                     \cup (IF Truthy(c.device_id) THEN {<<"device_id", c.device_id>>} ELSE {}))]

\* the command_<name> methods of the system command handler, and of the
\* command handler that each device registers
SystemCommands == {"station_time"}
DeviceCommands == [d \in Devices |-> IF d = "d1" THEN {"station_time", "device_state"} ELSE {}]

\* the threads
Coordinator == "coordinator"
Worker == "worker"

\* what a command body does: it returns a result or raises
BodyOutcomes ==
  { [raised |-> NoFailure, result |-> JObj({<<"timestamp", JNum("5")>>})],
    [raised |-> Exc("Exception", "the body failed"), result |-> None],
    [raised |-> CommandError("the command failed", JObj({<<"reason", JStr("busy")>>})),
     result |-> None],
    [raised |-> CommandError("the command failed", None), result |-> None] }
NoOutcome == [raised |-> NoFailure, result |-> None]

\* the request that comes with a command: the call and its user
NoRequest == [id |-> 0, user |-> "none"]
Request(c, u) == [id |-> c, user |-> u]

\* a deferred: the chain its result is on, and that result
NotFired == [fired |-> "none", response |-> None, request |-> NoRequest, failure |-> NoFailure]
Callback(r) == [fired |-> "callback", response |-> r.response, request |-> r.request,
                failure |-> NoFailure]
Errback(f) == [fired |-> "errback", response |-> None, request |-> NoRequest, failure |-> f]

\* CommandParser._command_error as an errback: the deferred after it
command_error_reraises(failure, c) == Errback(failure)

command_error(failure, c) ==
  LET error_message == {<<"error_message", JStr(failure.message)>>}
  IN IF failure.has_error_parameters
     THEN IF failure.error_parameters = None
          THEN Errback(Exc("AttributeError", NoneItemsMessage))
          ELSE Callback(build_command_response(c, FALSE,
                          JObj(DictMerge(failure.error_parameters.o, error_message))))
     ELSE Callback(build_command_response(c, FALSE, JObj(error_message)))

\* CommandParser._command_complete
command_complete(command_results, c) == Callback(build_command_response(c, TRUE, command_results))

\* CommandParser._run_command up to the hand-over of the body: the failure
\* it raises (NoFailure when the body is handed over), and the handler and
\* thread of the body
NoHandler == "none"

\* _run_command that hands the body over without looking for the method
run_command_any_method(c) ==
  IF Truthy(c.device_id)
  THEN [raised |-> Exc("UnboundLocalError", UnboundHandlerMessage),
        handler |-> NoHandler, thread |-> Coordinator]
  ELSE [raised |-> NoFailure, handler |-> "system", thread |-> Worker]

\* _run_command that takes every device_id that is not None for a device
run_command_id_not_none(c) ==
  IF c.device_id # None
  THEN [raised |-> Exc("UnboundLocalError", UnboundHandlerMessage),
        handler |-> NoHandler, thread |-> Coordinator]
  ELSE IF c.command.s \notin SystemCommands
       THEN [raised |-> CommandError(NotLocatedMessage,
                                     JObj({<<"invalid_command", c.command>>})),
             handler |-> NoHandler, thread |-> Coordinator]
       ELSE [raised |-> NoFailure, handler |-> "system", thread |-> Worker]

run_command_inline(c) ==
  IF Truthy(c.device_id)
  THEN [raised |-> Exc("UnboundLocalError", UnboundHandlerMessage),
        handler |-> NoHandler, thread |-> Coordinator]
  ELSE IF c.command.s \notin SystemCommands
       THEN [raised |-> CommandError(NotLocatedMessage,
                                     JObj({<<"invalid_command", c.command>>})),
             handler |-> NoHandler, thread |-> Coordinator]
       ELSE [raised |-> NoFailure, handler |-> "system", thread |-> Coordinator]

run_command(c) ==
  IF Truthy(c.device_id)
  THEN [raised |-> Exc("UnboundLocalError", UnboundHandlerMessage),
        handler |-> NoHandler, thread |-> Coordinator]
  ELSE IF c.command.s \notin SystemCommands
       THEN [raised |-> CommandError(NotLocatedMessage,
                                     JObj({<<"invalid_command", c.command>>})),
             handler |-> NoHandler, thread |-> Coordinator]
       ELSE [raised |-> NoFailure, handler |-> "system", thread |-> Worker]

\* CommandParser.parse_command up to its return: the command, what its
\* validation failed with, the body it handed over (handler NoHandler when
\* none) and the deferred it returns
parse_command(request, raw) ==
  LET v == validate_command(Command(request, raw))
  IN IF v.failure # NoFailure
     THEN [command |-> v.command, validation |-> v.failure.type, handler |-> NoHandler,
           thread |-> Coordinator, deferred |-> command_error(v.failure, v.command)]
     ELSE LET r == run_command(v.command)
          IN IF r.raised # NoFailure
             THEN [command |-> v.command, validation |-> "none", handler |-> NoHandler,
                   thread |-> Coordinator, deferred |-> command_error(r.raised, v.command)]
             ELSE [command |-> v.command, validation |-> "none", handler |-> r.handler,
                   thread |-> r.thread, deferred |-> NotFired]

\* the callbacks of the body's deferred, then the errback of the deferred
\* that parse_command returned: the state of that deferred once the body is over
command_returned(outcome, c) ==
  LET inner == IF outcome.raised = NoFailure
               THEN command_complete(outcome.result, c)
               ELSE command_error(outcome.raised, c)
  IN IF inner.fired = "errback" THEN command_error(inner.failure, c) ELSE inner

\* a permission object: t is what kind of value it is ("none" for None,
\* "object" for a JSON object, "scalar" for a value that is no object), keys
\* the keys the object holds of the three the schema requires
AllKeys == {"user_id", "generated_at", "permitted_commands"}
PermissionObject(user_id, generated_at, permitted_commands) ==
  [t |-> "object", keys |-> AllKeys, user_id |-> user_id, generated_at |-> generated_at,
   permitted_commands |-> permitted_commands]
NoRecord ==
  [t |-> "none", keys |-> {}, user_id |-> "none", generated_at |-> 0,
   permitted_commands |-> {}]
\* the object {}, the object {"user_id": u}, and an entry that is no object
\* (a number, or what a loop over an object or a string hands out)
EmptyObject == [NoRecord EXCEPT !.t = "object"]
UserIdOnly(u) == [NoRecord EXCEPT !.t = "object", !.keys = {"user_id"}, !.user_id = u]
ScalarEntry == [NoRecord EXCEPT !.t = "scalar"]

Users == {"u1", "u2"}
\* the user whose commands the command tests submit
Submitters == {"u1"}
PermissionRecords ==
  { PermissionObject("u1", 0, {"station_time"}), PermissionObject("u1", 0, {}) }

\* the same settings for each user, generated at each time up to MaxTime
TimedRecords ==
  {[r EXCEPT !.user_id = u, !.generated_at = t] :
     r \in PermissionRecords, u \in Users, t \in 0..MaxTime}

\* get_user_permissions that lets a record expire on lookup: only a record
\* generated at the latest time is found
get_user_permissions_fresh_only(perms, user_id) ==
  IF perms[user_id] = NoRecord \/ perms[user_id].generated_at < MaxTime
  THEN [raised |-> "PermissionsUserNotFound", record |-> NoRecord]
  ELSE [raised |-> "none", record |-> perms[user_id]]

\* PermissionManager.get_user_permissions: the record of the user, or
\* PermissionsUserNotFound raised
get_user_permissions(perms, user_id) ==
  IF perms[user_id] = NoRecord
  THEN [raised |-> "PermissionsUserNotFound", record |-> NoRecord]
  ELSE [raised |-> "none", record |-> perms[user_id]]

\* a value handed along the callbacks of add_user_permissions: t is None
\* ("none"), a JSON array ("list"), a JSON object, a string or a number;
\* list holds what a for loop over the value hands out (the entries of an
\* array, the keys of an object, the characters of a string)
NoneValue == [t |-> "none", list |-> <<>>]
ListValue(list) == [t |-> "list", list |-> list]
OtherValue(t, n) == [t |-> t, list |-> [i \in 1..n |-> ScalarEntry]]

\* what the permissions file holds when it is read: nothing (the file is
\* not there), text that is not JSON, or JSON
PermissionFile(kind, json) == [kind |-> kind, json |-> json]

\* the lists of settings the permissions resource of the tests holds
LoadedSettings ==
  { <<PermissionObject("u1", 0, {"station_time"})>>,
    <<PermissionObject("u1", 0, {}), PermissionObject("u2", 0, {"station_time"})>> }

\* JSON files that do not conform to the schema: {} and a list whose entry
\* has a user_id and nothing else
OtherFiles == { OtherValue("object", 0), ListValue(<<UserIdOnly("u1")>>) }

\* JSON that is no list of permission objects: {}, an object of one key, "",
\* a number, and lists with an entry that is not one
OtherSettings ==
  { OtherValue("object", 0), OtherValue("object", 1), OtherValue("string", 0),
    OtherValue("number", 0),
    ListValue(<<EmptyObject>>), ListValue(<<UserIdOnly("u1")>>), ListValue(<<ScalarEntry>>),
    ListValue(<<PermissionObject("u2", 0, {}), EmptyObject>>) }

PermissionFiles ==
  {PermissionFile("missing", NoneValue), PermissionFile("not_json", NoneValue)}
    \cup {PermissionFile("json", ListValue(l)) : l \in LoadedSettings}
    \cup {PermissionFile("json", v) : v \in OtherFiles}

\* PermissionManager._load_local_permissions: the parsed JSON of the file, or
\* PermissionsError raised
load_local_permissions(file) ==
  IF file.kind = "json"
  THEN [raised |-> "none", returned |-> file.json]
  ELSE [raised |-> "PermissionsError", returned |-> NoneValue]

\* the loop of _save_permissions over permission_settings from entry i on:
\* every entry is stored under its own user_id, target is the entry of the
\* user asked for. The subscript ['user_id'] raises TypeError on an entry
\* that is no object and KeyError on an object without the key; the entries
\* before it stay stored
RECURSIVE save_each(_, _, _, _, _)
save_each(perms, list, i, user_id, target) ==
  IF i > Len(list) THEN [raised |-> "none", perms |-> perms, target |-> target]
  ELSE IF list[i].t # "object"
  THEN [raised |-> "TypeError", perms |-> perms, target |-> target]
  ELSE IF "user_id" \notin list[i].keys
  THEN [raised |-> "KeyError", perms |-> perms, target |-> target]
  ELSE save_each([perms EXCEPT ![list[i].user_id] = list[i]], list, i + 1, user_id,
                 IF list[i].user_id = user_id THEN list[i] ELSE target)

\* PermissionManager._save_permissions: [raised, perms, returned]. None and
\* a number cannot be looped over (TypeError); a loop that ends without the
\* user asked for, the loop over nothing included, raises
\* PermissionsUserNotFound after the entries were stored
save_permissions(perms, permission_settings, user_id) ==
  IF permission_settings.t \in {"none", "number"}
  THEN [raised |-> "TypeError", perms |-> perms, returned |-> NoRecord]
  ELSE LET r == save_each(perms, permission_settings.list, 1, user_id, NoRecord)
       IN IF r.raised # "none"
          THEN [raised |-> r.raised, perms |-> r.perms, returned |-> NoRecord]
          ELSE IF r.target = NoRecord
          THEN [raised |-> "PermissionsUserNotFound", perms |-> r.perms,
                returned |-> NoRecord]
          ELSE [raised |-> "none", perms |-> r.perms, returned |-> r.target]

\* the schema of _validate_permissions: an array whose items are objects
\* with user_id, generated_at and permitted_commands
conforms(permission_settings) ==
  /\ permission_settings.t = "list"
  /\ \A i \in DOMAIN permission_settings.list :
       /\ permission_settings.list[i].t = "object"
       /\ AllKeys \subseteq permission_settings.list[i].keys

\* PermissionManager._validate_permissions: PermissionsInvalidSchema raised
\* for a value that does not conform to the schema. The method has no return
\* statement: for settings that conform it hands None on to the next callback
validate_permissions(permission_settings) ==
  IF conforms(permission_settings)
  THEN [raised |-> "none", returned |-> NoneValue]
  ELSE [raised |-> "PermissionsInvalidSchema", returned |-> NoneValue]

\* the callbacks that PermissionManager.add_user_permissions puts on the
\* deferred of the load, run on what the load gave: a failure of the load
\* skips them; _save_permissions is called with what _validate_permissions
\* returned
add_user_permissions(perms, user_id, load) ==
  IF load.raised # "none"
  THEN [failure |-> load.raised, perms |-> perms]
  ELSE LET v == validate_permissions(load.returned)
       IN IF v.raised # "none"
          THEN [failure |-> v.raised, perms |-> perms]
          ELSE LET r == save_permissions(perms, v.returned, user_id)
               IN [failure |-> r.raised, perms |-> r.perms]

\* the deferred of an add_user_permissions call: not made yet, its load
\* queued on the thread pool, the load over, the callbacks run
NoLoad == [raised |-> "none", returned |-> NoneValue]
IdleLoad == [stage |-> "idle", load |-> NoLoad, failure |-> "none"]

\* the settings _save_permissions is called with directly: None, lists of
\* no, one and two entries, and JSON that is no list of permission objects
SavedSettings ==
  {NoneValue, ListValue(<<>>)}
    \cup {ListValue(<<r>>) : r \in TimedRecords}
    \cup {ListValue(l) : l \in LoadedSettings}
    \cup OtherSettings

\* PermissionManager.purge_user_permissions: the subscript of the first
\* entry it looks at is the bare name generated_at, which is not defined
purge_user_permissions(perms, age, current_time) ==
  IF \E u \in DOMAIN perms : perms[u] # NoRecord
  THEN [raised |-> "NameError", perms |-> perms]
  ELSE [raised |-> "none", perms |-> perms]

\* a command that was not submitted yet
Unsubmitted ==
  [stage |-> "new", command |-> Command(NoRequest, ""), validation |-> "none",
   handler |-> NoHandler,
   thread |-> Coordinator, starts |-> 0, outcome |-> NoOutcome, deferred |-> NotFired]

-----------------------------------------------------------------------------
(* Pipeline construction and Pipeline.run_setup_commands *)

\* the keys of Driver.associated_pipelines of device d: the dictionary is
\* kept as the sequence of its keys in the order a loop over it hands them
\* out
Registered(assoc, d) == {assoc[d][i] : i \in DOMAIN assoc[d]}

\* a new key enters the dictionary: where the loop over the dictionary will
\* come by it depends on the interpreter and on the hashes of the keys (the
\* last place when the dictionary keeps the order of entry, a place given by
\* the hash otherwise), so the place is an input; the keys that are there
\* keep their order among themselves
Slots == 1..Cardinality(Pipelines)
insert_key(keys, n, slot) ==
  LET k == IF slot > Len(keys) THEN Len(keys) + 1 ELSE slot
  IN SubSeq(keys, 1, k - 1) \o <<n>> \o SubSeq(keys, k, Len(keys))

\* register_pipeline without the check of the pipeline id
register_pipeline_overwrites(assoc, d, n, slot) ==
  [raised |-> FALSE,
   assoc |-> IF n \in Registered(assoc, d) THEN assoc
             ELSE [assoc EXCEPT ![d] = insert_key(@, n, slot)],
   hooks |-> 1]

\* Driver.register_pipeline of pipeline n on device d: assoc is
\* Driver.associated_pipelines per device, hooks the number of calls of
\* Driver._register_services it made
register_pipeline(assoc, d, n, slot) ==
  IF n \in Registered(assoc, d)
  THEN [raised |-> TRUE, assoc |-> assoc, hooks |-> 0]
  ELSE [raised |-> FALSE, assoc |-> [assoc EXCEPT ![d] = insert_key(@, n, slot)],
        hooks |-> 1]

\* the output device each pipeline of the driver tests is configured with
PipelineOutput == [p \in Pipelines |-> CASE p = "pA" -> "d2" [] p = "pB" -> "d1" [] OTHER -> "none"]

\* what a device reads from its pipelines: Pipeline.is_active and
\* Pipeline.output_device
PipelineViews(inuse) ==
  [p \in Pipelines |-> [is_active |-> inuse[p], output_device |-> PipelineOutput[p]]]

\* Driver.write_telemetry on device d: the Pipeline.write_telemetry calls it
\* makes, in the order of the loop over associated_pipelines (the timestamp,
\* binary and the extra headers are left out)
write_telemetry(assoc, pipes, d, stream, telemetry_datum) ==
  LET to_write(n) == pipes[n].is_active
      written == SelectSeq(assoc[d], to_write)
  IN [i \in 1..Len(written) |->
        Call(written[i], "write_telemetry", <<d, stream, telemetry_datum>>)]

\* write_output that skips the test of the output device
write_output_all_active(assoc, pipes, d, output_data) ==
  LET to_write(n) == pipes[n].is_active
      written == SelectSeq(assoc[d], to_write)
  IN [i \in 1..Len(written) |-> Call(written[i], "write_output", <<output_data>>)]

\* Driver.write_output on device d: the Pipeline.write_output calls it makes
write_output(assoc, pipes, d, output_data) ==
  LET to_write(n) == pipes[n].is_active /\ pipes[n].output_device = d
      written == SelectSeq(assoc[d], to_write)
  IN [i \in 1..Len(written) |-> Call(written[i], "write_output", <<output_data>>)]

\* the pipelines that get constructed, and the device ids their
\* configurations name ("dX" is not in the device registry)
ConstructIds == {"n1"}
ConfigDeviceIds == {"d1", "d2", "dX"}
DeviceEntries == [id : ConfigDeviceIds, input : BOOLEAN, output : BOOLEAN]
NoDevice == "none"
NoPipeline == [devices |-> {}, input_device |-> NoDevice, output_device |-> NoDevice,
               built |-> FALSE]

HasDuplicates(cfg) == \E i, j \in DOMAIN cfg : i # j /\ cfg[i].id = cfg[j].id
UnknownDevices(cfg) == \E i \in DOMAIN cfg : cfg[i].id \notin Devices
Flagged(cfg, role) == {i \in DOMAIN cfg : cfg[i][role]}
LastFlagged(cfg, role) ==
  IF Flagged(cfg, role) = {} THEN NoDevice
  ELSE cfg[CHOOSE i \in Flagged(cfg, role) : \A j \in Flagged(cfg, role) : j <= i].id

\* the pipeline registers itself with its devices, in configured order;
\* slots gives, per device, the place its key takes in the dictionary
RECURSIVE register_devices(_, _, _, _, _)
register_devices(assoc, n, cfg, i, slots) ==
  IF i > Len(cfg) THEN [raised |-> FALSE, assoc |-> assoc]
  ELSE LET r == register_pipeline(assoc, cfg[i].id, n, slots[cfg[i].id])
       IN IF r.raised THEN r ELSE register_devices(r.assoc, n, cfg, i + 1, slots)

\* the construction of pipeline n from the configuration cfg
construct_pipeline_any_outputs(assoc, n, cfg, slots) ==
  IF HasDuplicates(cfg) \/ UnknownDevices(cfg)
  THEN [res |-> "PipelineConfigInvalid", pipeline |-> NoPipeline, assoc |-> assoc]
  ELSE LET r == register_devices(assoc, n, cfg, 1, slots)
       IN IF r.raised
          THEN [res |-> "PipelineAlreadyRegistered", pipeline |-> NoPipeline, assoc |-> r.assoc]
          ELSE [res |-> "ok",
                pipeline |-> [devices |-> {cfg[i].id : i \in DOMAIN cfg},
                              input_device |-> LastFlagged(cfg, "input"),
                              output_device |-> LastFlagged(cfg, "output"),
                              built |-> TRUE],
                assoc |-> r.assoc]

construct_pipeline(assoc, n, cfg, slots) ==
  IF HasDuplicates(cfg) \/ UnknownDevices(cfg) \/ Cardinality(Flagged(cfg, "output")) > 1
  THEN [res |-> "PipelineConfigInvalid", pipeline |-> NoPipeline, assoc |-> assoc]
  ELSE LET r == register_devices(assoc, n, cfg, 1, slots)
       IN IF r.raised
          THEN [res |-> "PipelineAlreadyRegistered", pipeline |-> NoPipeline, assoc |-> r.assoc]
          ELSE [res |-> "ok",
                pipeline |-> [devices |-> {cfg[i].id : i \in DOMAIN cfg},
                              input_device |-> LastFlagged(cfg, "input"),
                              output_device |-> LastFlagged(cfg, "output"),
                              built |-> TRUE],
                assoc |-> r.assoc]

\* the pipeline whose setup commands are run, the destinations its setup
\* commands name ("d3" is not one of its devices) and what executing a
\* command through the parser comes to
SetupPipeline == "pA"
SetupDestinations == {"system", "d1", "d3"}
SetupOutcomes == {"ok", "CommandFailed"}
NoSetup == [commands |-> <<>>, state |-> "none", running |-> 0, executed |-> <<>>,
            results |-> <<>>, failure |-> "none", failed_at |-> 0]

\* Pipeline.run_setup_commands when it is called: nothing to run completes at once
run_setup_commands(cmds) ==
  [commands |-> cmds, state |-> IF cmds = <<>> THEN "done" ELSE "next", running |-> 0,
   executed |-> <<>>, results |-> <<>>, failure |-> "none", failed_at |-> 0]

\* the next setup command, the one after those that are over, is looked at:
\* one for a device that the pipeline does not have fails the sequence, any
\* other is run through the parser
setup_next(s, devs) ==
  LET k == Len(s.results) + 1
      dest == s.commands[k]
  IN IF dest # "system" /\ dest \notin devs
     THEN [s EXCEPT !.state = "failed", !.failure = "PipelineConfigInvalid", !.failed_at = k]
     ELSE [s EXCEPT !.state = "running", !.running = k, !.executed = Append(@, k)]

\* the running setup command is over: its failure fails the sequence, its
\* success lets the next one start or ends the sequence
setup_returned_keeps_going(s, outcome) ==
  LET k == s.running
  IN [s EXCEPT !.running = 0, !.results = Append(@, outcome),
               !.state = IF k = Len(s.commands) THEN "done" ELSE "next"]

setup_returned(s, outcome) ==
  LET k == s.running
  IN IF outcome # "ok"
     THEN [s EXCEPT !.state = "failed", !.failure = outcome, !.failed_at = k, !.running = 0,
                    !.results = Append(@, outcome)]
     ELSE [s EXCEPT !.running = 0, !.results = Append(@, outcome),
                    !.state = IF k = Len(s.commands) THEN "done" ELSE "next"]

\* the inputs of the three: command calls, setup command lists, configurations
CmdIds == 1..MaxCmds
SetupConfigs == UNION {[1..n -> SetupDestinations] : n \in 0..MaxSetup}
PipelineConfigs == UNION {[1..n -> DeviceEntries] : n \in 0..MaxCfgLen}

-----------------------------------------------------------------------------
(* Initial states *)

\* the worker threads of the pool that threads.deferToThread hands bodies to
WorkerThreads == 1..MaxWorkers

\* a worker thread that is not inside reserve_device
IdleWorker == [pc |-> "idle", device |-> "none", tmp |-> 0, res |-> "none"]

InitCommon ==
  /\ allow_concurrent_use \in [Devices -> BOOLEAN]
  /\ locked = [d \in Devices |-> FALSE]
  /\ use_count = [d \in Devices |-> 0]
  /\ in_use = [p \in Pipelines |-> FALSE]
  /\ services = [p \in Pipelines |-> {}]
  /\ active_services = [p \in Pipelines |-> [t \in ServiceTypes |-> NoService]]
  /\ current_session = [p \in Pipelines |-> NoSession]
  /\ commands = [c \in CmdIds |-> Unsubmitted]
  /\ permissions = [u \in Users |-> NoRecord]
  /\ loads = [u \in Users |-> IdleLoad]
  /\ setup = NoSetup
  /\ constructed = [n \in ConstructIds |-> NoPipeline]
  /\ associated_pipelines = [d \in Devices |-> <<>>]
  /\ calls = <<>>
  /\ devices = {}
  /\ workers = [t \in WorkerThreads |-> IdleWorker]
  /\ last = [op |-> "init", tgt |-> "none", res |-> "ok", arg |-> "none"]

Init ==
  /\ InitCommon
  /\ hist = [d \in Devices |-> Untracked]

\* the session tests: every device with the default allow_concurrent_use
InitSess ==
  /\ Init
  /\ allow_concurrent_use = [d \in Devices |-> FALSE]

InitDev ==
  /\ InitCommon
  /\ hist = [d \in Devices |-> IF d \in DriverTestDevices THEN Tracked ELSE Untracked]

-----------------------------------------------------------------------------
(* Actions: one per call *)

\* a direct call of Driver.reserve_device on device d
ReserveDevice(d) ==
  /\ ReserveRoom(d)
  /\ LET r == reserve_device(DevState, d)
     IN /\ locked' = r.st.locked
        /\ use_count' = r.st.use_count
        /\ hist' = [hist EXCEPT ![d] = HistReserve(@, r.raised)]
        /\ last' = [op |-> "reserve_device", tgt |-> d,
                    res |-> IF r.raised THEN "DeviceInUse" ELSE "ok", arg |-> "none"]
  /\ UNCHANGED <<allow_concurrent_use, in_use, services, active_services, current_session>>
  /\ UNCHANGED <<cmdVars, setupVars, workers, consVars, ioVars>>

\* a direct call of Driver.free_device on device d
FreeDevice(d) ==
  /\ HistRoom(hist[d])
  /\ LET st == free_device(DevState, d)
     IN /\ locked' = st.locked
        /\ use_count' = st.use_count
  /\ hist' = [hist EXCEPT ![d] = HistFree(@)]
  /\ last' = [op |-> "free_device", tgt |-> d, res |-> "ok", arg |-> "none"]
  /\ UNCHANGED <<allow_concurrent_use, in_use, services, active_services, current_session>>
  /\ UNCHANGED <<cmdVars, setupVars, workers, consVars, ioVars>>

\* the devices the bodies of concurrent commands reserve
RaceDevices == {"d1", "d2"}

\* Driver.reserve_device run by a body on worker thread t, statement by
\* statement: the threads of the pool may be switched between any two of them.
\* The body on worker thread t calls reserve_device on device d
ReserveCall(t, d) ==
  /\ workers[t].pc = "idle"
  /\ workers' = [workers EXCEPT ![t] = [@ EXCEPT !.pc = "check", !.device = d]]
  /\ UNCHANGED <<hwVars, cmdVars, setupVars, consVars, ioVars, last>>

\* `if not self.allow_concurrent_use: if self.is_locked: raise DeviceInUse`
ReserveCheck(t) ==
  /\ workers[t].pc = "check"
  /\ LET d == workers[t].device
     IN workers' = [workers EXCEPT ![t] =
                      IF allow_concurrent_use[d] THEN [@ EXCEPT !.pc = "load"]
                      ELSE IF is_locked(DevState, d)
                           THEN [@ EXCEPT !.pc = "done", !.res = "DeviceInUse"]
                           ELSE [@ EXCEPT !.pc = "lock"]]
  /\ UNCHANGED <<hwVars, cmdVars, setupVars, consVars, ioVars, last>>

\* `self._locked = True`
ReserveLock(t) ==
  /\ workers[t].pc = "lock"
  /\ locked' = [locked EXCEPT ![workers[t].device] = TRUE]
  /\ workers' = [workers EXCEPT ![t].pc = "load"]
  /\ UNCHANGED <<allow_concurrent_use, use_count, in_use, services, active_services,
                 current_session, hist>>
  /\ UNCHANGED <<cmdVars, setupVars, consVars, ioVars, last>>

\* `self._use_count += 1`, the read of the attribute
ReserveLoad(t) ==
  /\ workers[t].pc = "load"
  /\ workers' = [workers EXCEPT ![t] =
                   [@ EXCEPT !.pc = "store", !.tmp = use_count[workers[t].device]]]
  /\ UNCHANGED <<hwVars, cmdVars, setupVars, consVars, ioVars, last>>

\* `self._use_count += 1`, the write of the sum; reserve_device returns
ReserveStore(t) ==
  /\ workers[t].pc = "store"
  /\ use_count' = [use_count EXCEPT ![workers[t].device] = workers[t].tmp + 1]
  /\ workers' = [workers EXCEPT ![t] = [@ EXCEPT !.pc = "done", !.res = "ok"]]
  /\ UNCHANGED <<allow_concurrent_use, locked, in_use, services, active_services,
                 current_session, hist>>
  /\ UNCHANGED <<cmdVars, setupVars, consVars, ioVars, last>>

\* a call of Pipeline.reserve_pipeline on pipeline p
ReservePipeline(p) ==
  /\ LET r == reserve_pipeline(DevState, in_use, p)
     IN /\ locked' = r.st.locked
        /\ use_count' = r.st.use_count
        /\ in_use' = r.in_use
        /\ last' = [op |-> "reserve_pipeline", tgt |-> p, res |-> r.res, arg |-> "none"]
  /\ UNCHANGED <<allow_concurrent_use, services, active_services, current_session, hist>>
  /\ UNCHANGED <<cmdVars, setupVars, workers, consVars, ioVars>>

\* a call of Pipeline.free_pipeline on pipeline p
FreePipeline(p) ==
  /\ LET r == free_pipeline(DevState, in_use, p)
     IN /\ locked' = r.st.locked
        /\ use_count' = r.st.use_count
        /\ in_use' = r.in_use
  /\ last' = [op |-> "free_pipeline", tgt |-> p, res |-> "ok", arg |-> "none"]
  /\ UNCHANGED <<allow_concurrent_use, services, active_services, current_session, hist>>
  /\ UNCHANGED <<cmdVars, setupVars, workers, consVars, ioVars>>

\* a call of Pipeline.register_service on pipeline p with a service (t, id)
RegisterService(p, t, id) ==
  /\ LET r == register_service(services[p], t, id)
     IN /\ services' = [services EXCEPT ![p] = r.services]
        /\ last' = [op |-> "register_service", tgt |-> p, res |-> r.res, arg |-> id]
  /\ UNCHANGED <<allow_concurrent_use, locked, use_count, in_use, active_services,
                 current_session, hist>>
  /\ UNCHANGED <<cmdVars, setupVars, workers, consVars, ioVars>>

\* a call of Pipeline.register_session on pipeline p with session s, whose
\* reservation configuration selects the active services cfg
RegisterSession(p, s, cfg) ==
  /\ LET r == register_session(current_session[p], services[p], active_services[p], s, cfg)
     IN /\ current_session' = [current_session EXCEPT ![p] = r.current_session]
        /\ active_services' = [active_services EXCEPT ![p] = r.active]
        /\ last' = [op |-> "register_session", tgt |-> p, res |-> r.res, arg |-> s]
  /\ UNCHANGED <<allow_concurrent_use, locked, use_count, in_use, services, hist>>
  /\ UNCHANGED <<cmdVars, setupVars, workers, consVars, ioVars>>

\* the end of a session: the coordinator unsets the pipeline's session
ClearSession(p) ==
  /\ current_session' = [current_session EXCEPT ![p] = NoSession]
  /\ last' = [op |-> "clear_session", tgt |-> p, res |-> "ok", arg |-> "none"]
  /\ UNCHANGED <<allow_concurrent_use, locked, use_count, in_use, services,
                 active_services, hist>>
  /\ UNCHANGED <<cmdVars, setupVars, workers, consVars, ioVars>>

\* a call of Pipeline.load_service on pipeline p for the service type t
LoadService(p, t) ==
  /\ LET r == load_service(services[p], active_services[p], t)
     IN last' = [op |-> "load_service", tgt |-> p, res |-> r.res,
                 arg |-> [type |-> t, service |-> r.service]]
  /\ UNCHANGED <<hwVars, cmdVars, setupVars, workers, consVars, ioVars>>

\* a call of Pipeline.write_pipeline_output on pipeline p
WritePipelineOutput(p, output_data) ==
  /\ calls' = write_pipeline_output(current_session[p], output_data)
  /\ last' = [op |-> "write_pipeline_output", tgt |-> p, res |-> "ok", arg |-> "none"]
  /\ UNCHANGED <<hwVars, cmdVars, setupVars, workers, consVars, devices>>

\* a call of Pipeline.write_telemetry_datum on pipeline p
WriteTelemetryDatum(p, source_id, stream, timestamp, telemetry_datum) ==
  /\ calls' = write_telemetry_datum(current_session[p], source_id, stream, timestamp,
                                    telemetry_datum)
  /\ last' = [op |-> "write_telemetry_datum", tgt |-> p, res |-> "ok", arg |-> "none"]
  /\ UNCHANGED <<hwVars, cmdVars, setupVars, workers, consVars, devices>>

\* a call of Pipeline.write_to_pipeline on pipeline p
WriteToPipeline(p, input_data) ==
  /\ calls' = write_to_pipeline(PipelineInput[p], input_data)
  /\ last' = [op |-> "write_to_pipeline", tgt |-> p, res |-> "ok", arg |-> "none"]
  /\ UNCHANGED <<hwVars, cmdVars, setupVars, workers, consVars, devices>>

\* a call of DeviceManager._initialize_devices with the 'devices' option
\* of the configuration being device_settings; the call looks at the
\* registry before it reads the configuration
InitializeDevices(device_settings) ==
  /\ LET r == initialize_devices(devices, device_settings)
     IN /\ devices' = r.devices
        /\ last' = [op |-> "initialize_devices", tgt |-> "manager", res |-> r.res,
                    arg |-> IF Cardinality(devices) > 0 THEN SettingsNotRead
                            ELSE device_settings]
  /\ UNCHANGED <<hwVars, cmdVars, setupVars, workers, consVars, calls>>

\* a call of DeviceManager.get_device_driver
GetDeviceDriver(device_id) ==
  /\ LET r == get_device_driver(devices, device_id)
     IN last' = [op |-> "get_device_driver", tgt |-> device_id, res |-> r.res,
                 arg |-> r.driver]
  /\ UNCHANGED <<hwVars, cmdVars, setupVars, workers, consVars, ioVars>>

\* the coordinating thread is held by a command body that runs on it
CoordinatorFree ==
  \A c \in CmdIds : ~(commands[c].stage \in {"queued", "running"}
                      /\ commands[c].thread = Coordinator)

\* a call of CommandParser.parse_command, for user u with the raw command raw
ParseCommand(c, u, raw) ==
  /\ commands[c].stage = "new"
  /\ \A b \in CmdIds : b < c => commands[b].stage # "new"
  /\ CoordinatorFree
  /\ LET r == parse_command(Request(c, u), raw)
     IN commands' = [commands EXCEPT ![c] =
                       [stage |-> IF r.handler = NoHandler THEN "done" ELSE "queued",
                        command |-> r.command, validation |-> r.validation,
                        handler |-> r.handler,
                        thread |-> r.thread, starts |-> 0, outcome |-> NoOutcome,
                        deferred |-> r.deferred]]
  /\ UNCHANGED <<hwVars, permissions, loads, setupVars, workers, consVars, last, ioVars>>

\* the thread that was given the body of command c starts it
BodyStart(c) ==
  /\ commands[c].stage = "queued"
  /\ commands' = [commands EXCEPT ![c].stage = "running", ![c].starts = @ + 1]
  /\ UNCHANGED <<hwVars, permissions, loads, setupVars, workers, consVars, last, ioVars>>

\* the body of command c returns or raises
BodyEnd(c, outcome) ==
  /\ commands[c].stage = "running"
  /\ commands' = [commands EXCEPT ![c].stage = "returned", ![c].outcome = outcome]
  /\ UNCHANGED <<hwVars, permissions, loads, setupVars, workers, consVars, last, ioVars>>

\* the coordinating thread runs the callbacks on the outcome of command c
CommandReturned(c) ==
  /\ commands[c].stage = "returned"
  /\ CoordinatorFree
  /\ LET d == command_returned(commands[c].outcome, commands[c].command)
     IN commands' = [commands EXCEPT ![c].stage = "done", ![c].deferred = d]
  /\ UNCHANGED <<hwVars, permissions, loads, setupVars, workers, consVars, last, ioVars>>

\* a Command is made from the raw command raw, and validate_command is called
ValidateCommand(c, u, raw) ==
  /\ commands[c].stage = "new"
  /\ LET v == validate_command(Command(Request(c, u), raw))
     IN /\ commands' = [commands EXCEPT ![c].stage = "validated", ![c].command = v.command,
                                        ![c].validation = v.failure.type]
        /\ last' = [op |-> "validate_command", tgt |-> ToString(c), res |-> v.failure.type,
                    arg |-> raw]
  /\ UNCHANGED <<hwVars, permissions, loads, setupVars, workers, consVars, ioVars>>

\* a call of build_command_response on a Command that went through validation
BuildCommandResponse(c, success, command_results) ==
  /\ commands[c].stage = "validated"
  /\ last' = [op |-> "build_command_response", tgt |-> ToString(c),
              res |-> build_command_response(commands[c].command, success, command_results),
              arg |-> [success |-> success, command_results |-> command_results]]
  /\ UNCHANGED <<hwVars, cmdVars, setupVars, workers, consVars, ioVars>>

\* a call of add_user_permissions for user_id: the load is handed to the
\* thread pool and the deferred returned; nothing was loaded or stored yet.
\* The tests add the permissions of a user again once the load before is over
AddUserPermissions(user_id) ==
  /\ loads[user_id].stage \in {"idle", "done"}
  /\ loads' = [loads EXCEPT ![user_id] = [IdleLoad EXCEPT !.stage = "queued"]]
  /\ UNCHANGED <<hwVars, commands, permissions, setupVars, workers, consVars, last, ioVars>>

\* a pool thread runs _load_local_permissions for user_id and reads the file
LoadPermissions(user_id, file) ==
  /\ loads[user_id].stage = "queued"
  /\ loads' = [loads EXCEPT ![user_id] =
                 [@ EXCEPT !.stage = "loaded", !.load = load_local_permissions(file)]]
  /\ UNCHANGED <<hwVars, commands, permissions, setupVars, workers, consVars, last, ioVars>>

\* the reactor runs the callbacks of the deferred on what was loaded
PermissionsLoaded(user_id) ==
  /\ loads[user_id].stage = "loaded"
  /\ LET r == add_user_permissions(permissions, user_id, loads[user_id].load)
     IN /\ permissions' = r.perms
        /\ loads' = [loads EXCEPT ![user_id] =
                       [IdleLoad EXCEPT !.stage = "done", !.failure = r.failure]]
        /\ last' = [op |-> "add_user_permissions", tgt |-> user_id,
                    res |-> r.failure, arg |-> "none"]
  /\ UNCHANGED <<hwVars, commands, setupVars, workers, consVars, ioVars>>

\* a direct call of the callback _save_permissions
SavePermissions(permission_settings, user_id) ==
  /\ LET r == save_permissions(permissions, permission_settings, user_id)
     IN /\ permissions' = r.perms
        /\ last' = [op |-> "save_permissions", tgt |-> user_id, res |-> r.raised,
                    arg |-> "none"]
  /\ UNCHANGED <<hwVars, commands, loads, setupVars, workers, consVars, ioVars>>

\* a call of get_user_permissions
GetUserPermissions(user_id) ==
  /\ LET r == get_user_permissions(permissions, user_id)
     IN last' = [op |-> "get_user_permissions", tgt |-> user_id, res |-> r.raised,
                 arg |-> r.record]
  /\ UNCHANGED <<hwVars, cmdVars, setupVars, workers, consVars, ioVars>>

\* a call of purge_user_permissions(age) at the time current_time
PurgeUserPermissions(age, current_time) ==
  /\ LET r == purge_user_permissions(permissions, age, current_time)
     IN /\ permissions' = r.perms
        /\ last' = [op |-> "purge_user_permissions", tgt |-> "manager", res |-> r.raised,
                    arg |-> "none"]
  /\ UNCHANGED <<hwVars, commands, loads, setupVars, workers, consVars, ioVars>>

\* a call of Pipeline.run_setup_commands on a pipeline configured with cmds
RunSetupCommands(cmds) ==
  /\ setup.state = "none"
  /\ setup' = run_setup_commands(cmds)
  /\ last' = [op |-> "run_setup_commands", tgt |-> SetupPipeline, res |-> setup'.state,
              arg |-> "none"]
  /\ UNCHANGED <<hwVars, cmdVars, consVars, ioVars, workers>>

\* the next setup command is taken up
SetupNext ==
  /\ setup.state = "next"
  /\ setup' = setup_next(setup, DeviceSet(SetupPipeline))
  /\ last' = [op |-> "setup_next", tgt |-> SetupPipeline, res |-> setup'.state,
              arg |-> "none"]
  /\ UNCHANGED <<hwVars, cmdVars, consVars, ioVars, workers>>

\* the parser's deferred for the running setup command fires
SetupReturned(outcome) ==
  /\ setup.state = "running"
  /\ setup' = setup_returned(setup, outcome)
  /\ last' = [op |-> "setup_returned", tgt |-> SetupPipeline, res |-> setup'.state,
              arg |-> outcome]
  /\ UNCHANGED <<hwVars, cmdVars, consVars, ioVars, workers>>

\* the construction of pipeline n from the configuration cfg; a
\* construction that fails ends the start-up
ConstructPipeline(n, cfg) ==
  /\ ~(last.op = "construct_pipeline" /\ last.res # "ok")
  /\ \E slots \in [Devices -> Slots] :
     LET r == construct_pipeline(associated_pipelines, n, cfg, slots)
     IN /\ associated_pipelines' = r.assoc
        /\ constructed' = IF r.res = "ok" THEN [constructed EXCEPT ![n] = r.pipeline]
                          ELSE constructed
        /\ last' = [op |-> "construct_pipeline", tgt |-> n, res |-> r.res, arg |-> cfg]
  /\ UNCHANGED <<hwVars, cmdVars, setupVars, workers, ioVars>>

\* a direct call of Driver.register_pipeline on device d with pipeline n
RegisterPipeline(d, n) ==
  /\ \E slot \in Slots :
     LET r == register_pipeline(associated_pipelines, d, n, slot)
     IN /\ associated_pipelines' = r.assoc
        /\ calls' = [i \in 1..r.hooks |-> Call(d, "_register_services", <<n>>)]
        /\ last' = [op |-> "register_pipeline", tgt |-> d,
                    res |-> IF r.raised THEN "PipelineAlreadyRegistered" ELSE "ok",
                    arg |-> n]
  /\ UNCHANGED <<hwVars, cmdVars, setupVars, workers, constructed, devices>>

\* a call of Driver.write_telemetry on device d
WriteTelemetry(d, stream, telemetry_datum) ==
  /\ calls' = write_telemetry(associated_pipelines, PipelineViews(in_use), d,
                               stream, telemetry_datum)
  /\ last' = [op |-> "write_telemetry", tgt |-> d, res |-> "ok", arg |-> "none"]
  /\ UNCHANGED <<hwVars, cmdVars, setupVars, workers, consVars, devices>>

\* a call of Driver.write_output on device d
WriteOutput(d, output_data) ==
  /\ calls' = write_output(associated_pipelines, PipelineViews(in_use), d, output_data)
  /\ last' = [op |-> "write_output", tgt |-> d, res |-> "ok", arg |-> "none"]
  /\ UNCHANGED <<hwVars, cmdVars, setupVars, workers, consVars, devices>>

-----------------------------------------------------------------------------
(* Specifications *)

\* the driver on its own: direct calls on the devices of the driver test
NextDev ==
  \/ \E d \in DriverTestDevices : ReserveDevice(d)
  \/ \E d \in DriverTestDevices : FreeDevice(d)

SpecDev == InitDev /\ [][NextDev]_vars

\* pipelines locking and freeing, with direct calls on their devices in between
Next ==
  \/ \E p \in Pipelines : ReservePipeline(p)
  \/ \E p \in Pipelines : FreePipeline(p)
  \/ \E d \in Devices : ReserveDevice(d)
  \/ \E d \in Devices : FreeDevice(d)

Spec == Init /\ [][Next]_vars

\* one pipeline, its services and its sessions
NextSess ==
  \/ \E p \in SessionPipelines, t \in ServiceTypes, id \in ServiceIds : RegisterService(p, t, id)
  \/ \E p \in SessionPipelines, s \in Sessions, cfg \in SessionConfigs : RegisterSession(p, s, cfg)
  \/ \E p \in SessionPipelines : ClearSession(p)

SpecSess == InitSess /\ [][NextSess]_vars

\* the command parser: commands come in, their bodies run on the thread
\* pool, and permission settings get loaded
InitCmd ==
  /\ Init
  /\ allow_concurrent_use = [d \in Devices |-> FALSE]

NextCmd ==
  \/ \E c \in CmdIds, u \in Submitters, raw \in RawCommands : ParseCommand(c, u, raw)
  \/ \E c \in CmdIds : BodyStart(c)
  \/ \E c \in CmdIds, outcome \in BodyOutcomes : BodyEnd(c, outcome)
  \/ \E c \in CmdIds : CommandReturned(c)

SpecCmd == InitCmd /\ [][NextCmd]_vars

\* the command tests with their scheduling: the thread pool starts a body it
\* was handed, a body that was started returns or raises, and the reactor
\* runs the callbacks of a body that is over
FairCmd ==
  \A c \in CmdIds :
    /\ WF_vars(BodyStart(c))
    /\ WF_vars(\E outcome \in BodyOutcomes : BodyEnd(c, outcome))
    /\ WF_vars(CommandReturned(c))

\* one raw command for each way through parse_command: a body is run, the
\* command is not located, the handler is unbound, the text is not JSON, the
\* JSON does not conform to the schema
LiveCommands ==
  { "{\"command\":\"station_time\"}",
    "{\"command\":\"nonexistent\",\"parameters\":{\"x\":5}}",
    "{\"command\":\"station_time\",\"device_id\":\"d1\"}",
    "{'este': 'no es JSON'}",
    "{\"message\":\"This schema is invalid\"}" }

NextCmdLive ==
  \/ \E c \in CmdIds, u \in Submitters, raw \in LiveCommands : ParseCommand(c, u, raw)
  \/ \E c \in CmdIds : BodyStart(c)
  \/ \E c \in CmdIds, outcome \in BodyOutcomes : BodyEnd(c, outcome)
  \/ \E c \in CmdIds : CommandReturned(c)

SpecCmdLive == InitCmd /\ [][NextCmdLive]_vars /\ FairCmd

\* Command objects used on their own, as the command tests do
ObjIds == {1}
CommandResults ==
  { JObj({<<"test_result", JNum("10")>>}), JObj({}),
    JObj({<<"error_message", JStr("it failed")>>}), None }

NextObj ==
  \/ \E c \in ObjIds, u \in Submitters, raw \in RawCommands : ValidateCommand(c, u, raw)
  \/ \E c \in ObjIds, success \in BOOLEAN, r \in CommandResults :
       BuildCommandResponse(c, success, r)

SpecObj == InitCmd /\ [][NextObj]_vars

\* the setup commands of one pipeline
NextSetup ==
  \/ \E cmds \in SetupConfigs : RunSetupCommands(cmds)
  \/ SetupNext
  \/ \E outcome \in SetupOutcomes : SetupReturned(outcome)

SpecSetup == InitCmd /\ [][NextSetup]_vars

\* pipelines being constructed from their configurations
NextCons ==
  \E n \in ConstructIds, cfg \in PipelineConfigs : ConstructPipeline(n, cfg)

SpecCons == InitCmd /\ [][NextCons]_vars

\* a driver with pipelines registered on it: the pipelines are locked and
\* freed, the driver is reserved and freed directly, and it writes telemetry
\* and output
DrvPipelines == {"pA", "pB"}
Streams == {"s1"}
Data == {"waffles"}

InitDrv ==
  /\ Init
  /\ allow_concurrent_use \in {[d \in Devices |-> d \in c] : c \in {{}, {"d1"}}}

NextDrv ==
  \/ \E d \in DriverTestDevices, n \in DrvPipelines : RegisterPipeline(d, n)
  \/ \E p \in DrvPipelines : ReservePipeline(p)
  \/ \E p \in DrvPipelines : FreePipeline(p)
  \/ \E d \in DriverTestDevices : ReserveDevice(d)
  \/ \E d \in DriverTestDevices : FreeDevice(d)
  \/ \E d \in DriverTestDevices, s \in Streams, t \in Data : WriteTelemetry(d, s, t)
  \/ \E d \in DriverTestDevices, o \in Data : WriteOutput(d, o)

SpecDrv == InitDrv /\ [][NextDrv]_vars

\* load_service on a pipeline whose services are registered one by one and
\* whose active selection comes from a session or was written directly
InitLoad ==
  /\ InitCommon
  /\ hist = [d \in Devices |-> Untracked]
  /\ allow_concurrent_use = [d \in Devices |-> FALSE]

\* the active selection of pipeline p as load_service may find it: any
\* mapping of types to ids, written to Pipeline.active_services before the
\* first call
SelectActiveServices(p, cfg) ==
  /\ last.op = "init"
  /\ active_services' = [active_services EXCEPT ![p] = cfg]
  /\ last' = [op |-> "select_active_services", tgt |-> p, res |-> "ok", arg |-> "none"]
  /\ UNCHANGED <<allow_concurrent_use, locked, use_count, in_use, services,
                 current_session, hist>>
  /\ UNCHANGED <<cmdVars, setupVars, workers, consVars, ioVars>>

NextLoad ==
  \/ \E p \in SessionPipelines, cfg \in SessionConfigs : SelectActiveServices(p, cfg)
  \/ \E p \in SessionPipelines, t \in ServiceTypes, id \in ServiceIds : RegisterService(p, t, id)
  \/ \E p \in SessionPipelines, s \in Sessions, cfg \in SessionConfigs : RegisterSession(p, s, cfg)
  \/ \E p \in SessionPipelines : ClearSession(p)
  \/ \E p \in SessionPipelines, t \in ServiceTypes : LoadService(p, t)

SpecLoad == InitLoad /\ [][NextLoad]_vars

\* the write paths of a pipeline with and without a session, and of a
\* pipeline with and without an input device
WritePipelines == {"pA", "pC"}
Sources == {"pipeline_test"}
Timestamps == {"t1", "t2"}

NextWrite ==
  \/ \E p \in WritePipelines, s \in Sessions, cfg \in SessionConfigs : RegisterSession(p, s, cfg)
  \/ \E p \in WritePipelines : ClearSession(p)
  \/ \E p \in WritePipelines, o \in Data : WritePipelineOutput(p, o)
  \/ \E p \in WritePipelines, src \in Sources, s \in Streams, ts \in Timestamps, t \in Data :
       WriteTelemetryDatum(p, src, s, ts, t)
  \/ \E p \in WritePipelines, i \in Data : WriteToPipeline(p, i)

SpecWrite == InitSess /\ [][NextWrite]_vars

\* the device manager: initializations with every configuration, and lookups
QueriedIds == ManagedIds \cup {"dX"}

NextMgr ==
  \/ \E device_settings \in DeviceSettings : InitializeDevices(device_settings)
  \/ \E device_id \in QueriedIds : GetDeviceDriver(device_id)

SpecMgr == InitSess /\ [][NextMgr]_vars

\* the permission manager: settings are loaded for a user or stored by the
\* callback directly, looked up and purged
NextPerm ==
  \/ \E u \in Submitters : AddUserPermissions(u)
  \/ \E u \in Submitters, file \in PermissionFiles : LoadPermissions(u, file)
  \/ \E u \in Submitters : PermissionsLoaded(u)
  \/ \E permission_settings \in SavedSettings, u \in Users :
       SavePermissions(permission_settings, u)
  \/ \E u \in Users : GetUserPermissions(u)
  \/ \E age \in 0..MaxTime, current_time \in 0..MaxTime : PurgeUserPermissions(age, current_time)

SpecPerm == InitSess /\ [][NextPerm]_vars

\* the pipelines of the locking tests, reserved and freed only through
\* reserve_pipeline and free_pipeline
NextPipe ==
  \/ \E p \in Pipelines : ReservePipeline(p)
  \/ \E p \in Pipelines : FreePipeline(p)

SpecPipe == Init /\ [][NextPipe]_vars

\* command bodies on the worker threads reserve devices at the same time;
\* the devices outside RaceDevices keep the default allow_concurrent_use
InitRace ==
  /\ Init
  /\ \A d \in Devices \ RaceDevices : ~allow_concurrent_use[d]

NextRace ==
  \/ \E t \in WorkerThreads, d \in RaceDevices : ReserveCall(t, d)
  \/ \E t \in WorkerThreads : ReserveCheck(t)
  \/ \E t \in WorkerThreads : ReserveLock(t)
  \/ \E t \in WorkerThreads : ReserveLoad(t)
  \/ \E t \in WorkerThreads : ReserveStore(t)

SpecRace == InitRace /\ [][NextRace]_vars






-----------------------------------------------------------------------------
(* What the claims speak of *)

\* a direct reserve_device() on d would succeed in device state st
ReserveSucceeds(st, d) == ~reserve_device(st, d).raised

\* the device state after the step
DevStateNext == [locked |-> locked', use_count |-> use_count']

\* d is held: its use count is not zero, or it is locked
Held(st, d) == is_active(st, d) \/ is_locked(st, d)

\* the two pipelines have a device in common
Shares(a, b) == DeviceSet(a) \cap DeviceSet(b) # {}

\* the two pipelines have a device in common that cannot be used concurrently
SharesExclusive(a, b) ==
  \E d \in DeviceSet(a) \cap DeviceSet(b) : ~allow_concurrent_use[d]

-----------------------------------------------------------------------------
(* C1 *)

\* C1, as stated: after a reserve_pipeline() call has returned, either the
\* pipeline is in use and every one of its devices is reserved, or it is not
\* in use and none of its devices is reserved.
C1_AllOrNothingAsStated ==
  last.op = "reserve_pipeline" =>
    LET p == last.tgt
    IN \/ in_use[p] /\ \A d \in DeviceSet(p) : Held(DevState, d)
       \/ ~in_use[p] /\ \A d \in DeviceSet(p) : ~Held(DevState, d)

\* C1, amended: a reserve_pipeline() call that returns normally leaves the
\* pipeline in use with every one of its devices reserved; a call that raises
\* PipelineInUse leaves in_use and the locked flag and use count of every
\* device exactly as they were before the call, so that nothing the failed
\* attempt acquired remains (devices held by others stay reserved).
C1_AllOrNothing ==
  [][\A p \in Pipelines :
       ReservePipeline(p) =>
         IF last'.res = "ok"
         THEN /\ in_use'[p]
              /\ \A d \in DeviceSet(p) :
                   /\ is_active(DevStateNext, d)
                   /\ ~allow_concurrent_use[d] => is_locked(DevStateNext, d)
         ELSE /\ last'.res = "PipelineInUse"
              /\ in_use' = in_use
              /\ locked' = locked
              /\ use_count' = use_count]_vars

\* a failed attempt that had locked the pipeline's first device before it met
\* a locked one: the first device is free again
C1_Witness ==
  /\ last.op = "reserve_pipeline"
  /\ last.res = "PipelineInUse"
  /\ ~in_use[last.tgt]
  /\ LET devs == PipelineDevices[last.tgt]
     IN /\ ~allow_concurrent_use[devs[1]]
        /\ ~Held(DevState, devs[1])
        /\ \E i \in 2..Len(devs) : ~allow_concurrent_use[devs[i]] /\ locked[devs[i]]

-----------------------------------------------------------------------------
(* C2 *)

\* C2, as stated: when pipeline a is in use and pipeline b shares a device
\* with it, b.reserve_pipeline() fails with PipelineInUse, and afterwards b is
\* not in use and a direct reserve on every device of b outside a succeeds.
C2_SharedDeviceAsStated ==
  \A a \in Pipelines, b \in Pipelines :
    (a # b /\ Shares(a, b) /\ in_use[a] /\ last.op = "reserve_pipeline" /\ last.tgt = b) =>
      /\ last.res = "PipelineInUse"
      /\ ~in_use[b]
      /\ \A d \in DeviceSet(b) \ DeviceSet(a) : ReserveSucceeds(DevState, d)

\* C2, amended: when pipeline a is in use, pipeline b is not, and they share
\* a device that is not concurrent-capable and is locked, b.reserve_pipeline()
\* fails with PipelineInUse, and afterwards b is not in use and every device
\* of b outside a is as it was before the call: if a direct reserve on it
\* would have succeeded before, it succeeds after.
C2_SharedDevice ==
  [][\A a \in Pipelines, b \in Pipelines :
       (/\ a # b
        /\ in_use[a]
        /\ ~in_use[b]
        /\ \E d \in DeviceSet(a) \cap DeviceSet(b) : ~allow_concurrent_use[d] /\ locked[d]
        /\ ReservePipeline(b)) =>
         /\ last'.res = "PipelineInUse"
         /\ ~in_use'[b]
         /\ \A d \in DeviceSet(b) \ DeviceSet(a) :
              /\ locked'[d] = locked[d]
              /\ use_count'[d] = use_count[d]
              /\ ReserveSucceeds(DevState, d) => ReserveSucceeds(DevStateNext, d)]_vars

\* pB has failed against pA over d1, after locking its own d3: d3 is free again
C2_Witness ==
  /\ last = [op |-> "reserve_pipeline", tgt |-> "pB", res |-> "PipelineInUse", arg |-> "none"]
  /\ in_use["pA"]
  /\ ~in_use["pB"]
  /\ ~allow_concurrent_use["d1"] /\ locked["d1"]
  /\ ~allow_concurrent_use["d3"] /\ ReserveSucceeds(DevState, "d3")
  /\ use_count["d3"] = 0

-----------------------------------------------------------------------------
(* C3 *)

\* C3: on a device that does not allow concurrent use, a reserve() issued
\* after a successful reserve() and before any free() fails with DeviceInUse,
\* and the first reserve() after a free() succeeds.
C3_ExclusiveReserve ==
  [][\A d \in Devices :
       (~allow_concurrent_use[d] /\ ReserveDevice(d)) =>
         /\ hist[d].since = "reserved" => last'.res = "DeviceInUse"
         /\ hist[d].since = "freed" => last'.res = "ok"]_vars

\* reserve, reserve (refused), free, reserve (granted)
C3_Witness ==
  \E d \in Devices :
    /\ ~allow_concurrent_use[d]
    /\ last = [op |-> "reserve_device", tgt |-> d, res |-> "ok", arg |-> "none"]
    /\ hist[d].since = "reserved"
    /\ hist[d].nres = 3
    /\ hist[d].nfree = 1
    /\ use_count[d] = 1

-----------------------------------------------------------------------------
(* C4 *)

\* C4: on a device that allows concurrent use no reserve() fails, the device
\* is never locked, and after N reserve() and M < N free() calls, none of
\* them made at a use count of zero, the use count is N - M.
C4_ConcurrentCount ==
  \A d \in Devices :
    allow_concurrent_use[d] =>
      /\ ~is_locked(DevState, d)
      /\ (last.op = "reserve_device" /\ last.tgt = d) => last.res = "ok"
      /\ (hist[d].since # "untracked" /\ ~hist[d].underflow /\ hist[d].nfree < hist[d].nres) =>
           use_count[d] = hist[d].nres - hist[d].nfree

\* three reserves and one free on a concurrent device: two holders left
C4_Witness ==
  \E d \in Devices :
    /\ allow_concurrent_use[d]
    /\ hist[d].nres = 3
    /\ hist[d].nfree = 1
    /\ ~hist[d].underflow
    /\ use_count[d] = 2
    /\ last.op = "reserve_device" /\ last.tgt = d

-----------------------------------------------------------------------------
(* C5 *)

\* C5: in every state reached by reserve() and free() calls, a device that
\* does not allow concurrent use is locked exactly when its use count is
\* above zero, and a device that allows it is not locked.
C5_LockedIffCounted ==
  \A d \in Devices :
    IF allow_concurrent_use[d]
    THEN ~locked[d]
    ELSE locked[d] <=> use_count[d] > 0

\* an exclusive device locked again after a free, beside a concurrent device
\* with two holders
C5_Witness ==
  \E d \in Devices, e \in Devices :
    /\ ~allow_concurrent_use[d] /\ locked[d] /\ use_count[d] = 1 /\ hist[d].nfree >= 1
    /\ allow_concurrent_use[e] /\ use_count[e] = 2 /\ ~locked[e]

-----------------------------------------------------------------------------
(* C6 *)

\* C6, as stated: after free_pipeline() the pipeline is not in use and every
\* one of its devices is free: a reserve on it succeeds and it is not held.
C6_FreeAsStated ==
  last.op = "free_pipeline" =>
    /\ ~in_use[last.tgt]
    /\ \A d \in DeviceSet(last.tgt) :
         ReserveSucceeds(DevState, d) /\ ~Held(DevState, d)

\* C6, amended: after free_pipeline() the pipeline is not in use and a
\* reserve() succeeds on every one of its devices; each of its devices that
\* does not allow concurrent use is no longer held (unlocked, use count 0),
\* and each that allows it has its use count lowered by one, not below zero,
\* so it stays held while other holders remain; when its devices are already
\* free the call changes no device.
C6_Free ==
  [][\A p \in Pipelines :
       FreePipeline(p) =>
         /\ ~in_use'[p]
         /\ \A d \in DeviceSet(p) :
              /\ ReserveSucceeds(DevStateNext, d)
              /\ ~locked'[d]
              /\ use_count'[d] = IF allow_concurrent_use[d] /\ use_count[d] > 0
                                 THEN use_count[d] - 1
                                 ELSE 0
         /\ (\A d \in DeviceSet(p) : ~Held(DevState, d)) =>
              (locked' = locked /\ use_count' = use_count)]_vars

\* pC freed while pB also holds the concurrent device d3: d3 keeps one holder,
\* the exclusive d4 is free
C6_Witness ==
  /\ last = [op |-> "free_pipeline", tgt |-> "pC", res |-> "ok", arg |-> "none"]
  /\ ~in_use["pC"]
  /\ in_use["pB"]
  /\ allow_concurrent_use["d3"] /\ use_count["d3"] = 1
  /\ ~allow_concurrent_use["d4"] /\ ~Held(DevState, "d4")

-----------------------------------------------------------------------------
(* C7 *)

\* C7: reserve_pipeline() on a pipeline that is in use fails with
\* PipelineInUse and touches nothing: the pipeline stays in use, every device
\* keeps its lock and use count, and a direct reserve that failed before the
\* call still fails.
C7_AlreadyInUse ==
  [][\A p \in Pipelines :
       (in_use[p] /\ ReservePipeline(p)) =>
         /\ last'.res = "PipelineInUse"
         /\ in_use' = in_use
         /\ \A d \in Devices :
              /\ locked'[d] = locked[d]
              /\ use_count'[d] = use_count[d]
              /\ ReserveSucceeds(DevStateNext, d) = ReserveSucceeds(DevState, d)]_vars

\* the pipeline was locked, then locked again: the second call was refused
\* and a direct reserve on each of its exclusive devices fails
C7_Witness ==
  /\ last.op = "reserve_pipeline"
  /\ last.res = "PipelineInUse"
  /\ in_use[last.tgt]
  /\ \E d \in DeviceSet(last.tgt) : ~allow_concurrent_use[d]
  /\ \A d \in DeviceSet(last.tgt) :
       ~allow_concurrent_use[d] => ~ReserveSucceeds(DevState, d)

-----------------------------------------------------------------------------
(* C8 *)

\* every device of the two pipelines is free and neither is in use
BothFree(a, b) ==
  /\ ~in_use[a]
  /\ ~in_use[b]
  /\ \A d \in DeviceSet(a) \cup DeviceSet(b) : ~Held(DevState, d)

\* C8, as stated: of two reserve_pipeline() calls on pipelines with
\* overlapping device sets that run one after the other, the first succeeds
\* and the second fails with PipelineInUse and changes nothing.
C8_RaceAsStated ==
  [][\A a \in Pipelines, b \in Pipelines :
       (/\ a # b
        /\ Shares(a, b)
        /\ last = [op |-> "reserve_pipeline", tgt |-> a, res |-> "ok", arg |-> "none"]
        /\ ReservePipeline(b)) =>
         /\ last'.res = "PipelineInUse"
         /\ in_use' = in_use
         /\ locked' = locked
         /\ use_count' = use_count]_vars

\* C8, amended: of two reserve_pipeline() calls on free pipelines that share
\* a device that is not concurrent-capable, the one that runs first succeeds
\* and the other fails with PipelineInUse; the loser's call leaves in_use and
\* every device as the winner's call left them.
C8_Race ==
  [][\A a \in Pipelines, b \in Pipelines :
       (a # b /\ SharesExclusive(a, b)) =>
         /\ (BothFree(a, b) /\ ReservePipeline(a)) => last'.res = "ok"
         /\ (/\ last = [op |-> "reserve_pipeline", tgt |-> a, res |-> "ok", arg |-> "none"]
             /\ ReservePipeline(b)) =>
              /\ last'.res = "PipelineInUse"
              /\ in_use' = in_use
              /\ locked' = locked
              /\ use_count' = use_count]_vars

\* pC lost to pA over d2 after locking d4: pA holds d1 and d2, d4 is free
C8_Witness ==
  /\ last = [op |-> "reserve_pipeline", tgt |-> "pC", res |-> "PipelineInUse", arg |-> "none"]
  /\ in_use["pA"]
  /\ ~in_use["pC"]
  /\ ~allow_concurrent_use["d2"] /\ locked["d2"]
  /\ Held(DevState, "d1")
  /\ ~Held(DevState, "d4")
  /\ ~Held(DevState, "d3")

-----------------------------------------------------------------------------
(* C9 *)

\* C9: register_session() on a pipeline that has a session fails with
\* SessionAlreadyRegistered and leaves that session, and the active services,
\* in place: the pipeline never takes a second session.
C9_OneSession ==
  [][\A p \in Pipelines, s \in Sessions, cfg \in SessionConfigs :
       (current_session[p] # NoSession /\ RegisterSession(p, s, cfg)) =>
         /\ last'.res = "SessionAlreadyRegistered"
         /\ current_session'[p] = current_session[p]
         /\ active_services'[p] = active_services[p]]_vars

\* a second session was refused: the first one is still the pipeline's session
C9_Witness ==
  \E p \in Pipelines :
    /\ last.op = "register_session" /\ last.tgt = p
    /\ last.res = "SessionAlreadyRegistered"
    /\ current_session[p] \in Sessions
    /\ current_session[p] # last.arg

-----------------------------------------------------------------------------
(* C10 *)

\* the selection names a type with no registered service, or an id that is
\* not registered under its type
InvalidSelection(svcs, cfg) ==
  \E t \in ServiceTypes :
    /\ cfg[t] # NoService
    /\ \/ ~\E id \in ServiceIds : <<t, id>> \in svcs
       \/ <<t, cfg[t]>> \notin svcs

\* C10: on a pipeline without a session, register_session() with a selection
\* of active services that names an unregistered type or id fails with
\* ServiceInvalid and leaves the pipeline without a session, so that a
\* register_session() with any valid selection is accepted next.
C10_InvalidServices ==
  [][\A p \in Pipelines, s \in Sessions, cfg \in SessionConfigs :
       (/\ current_session[p] = NoSession
        /\ InvalidSelection(services[p], cfg)
        /\ RegisterSession(p, s, cfg)) =>
         /\ last'.res = "ServiceInvalid"
         /\ current_session'[p] = NoSession
         /\ \A s2 \in Sessions, cfg2 \in SessionConfigs :
              ~InvalidSelection(services'[p], cfg2) =>
                LET r == register_session(current_session'[p], services'[p],
                                          active_services'[p], s2, cfg2)
                IN r.res = "ok" /\ r.current_session = s2]_vars

\* a session naming an unregistered tracker was refused on a pipeline that has
\* a tracker and a logger registered: the pipeline has no session
C10_Witness ==
  \E p \in Pipelines :
    /\ last.op = "register_session" /\ last.tgt = p
    /\ last.res = "ServiceInvalid"
    /\ current_session[p] = NoSession
    /\ <<"tracker", "sgp4">> \in services[p]
    /\ <<"tracker", "basic">> \notin services[p]
    /\ <<"logger", "basic">> \in services[p]

-----------------------------------------------------------------------------
(* Claims on the command model and the parser *)

\* the status and the result of the response that a deferred was fired with
Status(d) == Item(d.response.o, "status").s
Result(d) == Item(d.response.o, "result")

\* something failed for the command: its validation, the resolution of its
\* handler, or its body
CommandFailed(k) ==
  \/ ~k.command.valid
  \/ k.handler = NoHandler
  \/ k.outcome.raised # NoFailure

\* C11: whatever fails for a command (malformed JSON, schema violation,
\* unresolved handler, exception in the body), the deferred that
\* parse_command returned is fired on its callback chain, never on its
\* errback chain, and with a response whose status is "error".
C11_ErrorsAreResponses ==
  \A c \in CmdIds :
    LET k == commands[c]
    IN /\ k.deferred.fired # "errback"
       /\ k.stage = "done" => k.deferred.fired = "callback"
       /\ k.stage = "done" /\ CommandFailed(k) => Status(k.deferred) = "error"

\* a body raised a CommandError that carries no error data, and the caller
\* got an error response
C11_Witness ==
  \E c \in CmdIds :
    /\ commands[c].stage = "done"
    /\ commands[c].outcome.raised = CommandError("the command failed", None)
    /\ commands[c].deferred.fired = "callback"
    /\ Status(commands[c].deferred) = "error"

\* the handler that a validated command is meant for, and its methods
TargetHandler(cmd) == IF Truthy(cmd.device_id) THEN cmd.device_id.s ELSE "system"
TargetMethods(cmd) ==
  IF Truthy(cmd.device_id)
  THEN (IF cmd.device_id.s \in Devices THEN DeviceCommands[cmd.device_id.s] ELSE {})
  ELSE SystemCommands

\* C12: for every validated command, the handler method that is resolved
\* and executed is looked up on the command handler of the device when
\* device_id is set, and on the system handler when it is not: a command
\* whose method exists on that handler is handed to that handler.
C12_TargetHandlerAsStated ==
  \A c \in CmdIds :
    LET k == commands[c]
    IN k.stage # "new" /\ k.command.valid /\ k.command.command.s \in TargetMethods(k.command)
         => k.handler = TargetHandler(k.command)

\* C13: a schema-valid command whose name has no command_<name> method on
\* the handler it is meant for gets an error response whose result holds
\* invalid_command, equal to the command's name, and no body is executed.
C13_UnknownCommandAsStated ==
  \A c \in CmdIds :
    LET k == commands[c]
    IN k.stage # "new" /\ k.command.valid /\ k.command.command.s \notin TargetMethods(k.command)
         => /\ k.stage = "done" /\ k.starts = 0
            /\ k.deferred.fired = "callback"
            /\ Status(k.deferred) = "error"
            /\ HasKey(Result(k.deferred).o, "invalid_command")
            /\ Item(Result(k.deferred).o, "invalid_command") = k.command.command

\* the raw commands that are not JSON, and those that are JSON of a shape
\* other than an object with a text command, a text device_id if any and
\* object parameters if any
NotJson == {"{'este': 'no es JSON'}"}
WrongShape ==
  { "{\"message\":\"This schema is invalid\"}",
    "[\"station_time\"]",
    "{\"command\":5}",
    "{\"command\":\"station_time\",\"device_id\":7}",
    "{\"command\":\"station_time\",\"parameters\":\"x\"}" }

\* C14: a raw command that is not JSON fails validation with
\* CommandMalformed, and the error response carries its message about a
\* malformed string; one that is JSON of a wrong shape fails with
\* CommandInvalidSchema; either way the caller gets a response of status
\* "error", no body runs and the command stays invalid.
C14_ValidationClasses ==
  \A c \in CmdIds :
    LET k == commands[c]
        raw == k.command.command_raw
    IN k.stage # "new" =>
         /\ raw \in NotJson =>
              /\ k.validation = "CommandMalformed"
              /\ Item(Result(k.deferred).o, "error_message") = JStr(MalformedMessage)
         /\ raw \in WrongShape => k.validation = "CommandInvalidSchema"
         /\ raw \in NotJson \cup WrongShape =>
              /\ k.stage = "done" /\ k.starts = 0
              /\ k.deferred.fired = "callback"
              /\ Status(k.deferred) = "error"
              /\ ~k.command.valid
         /\ raw \notin NotJson \cup WrongShape => k.validation = "none" /\ k.command.valid

\* a command that is not JSON and one of a wrong shape were both answered
C14_Witness ==
  \E a, b \in CmdIds :
    /\ commands[a].stage = "done" /\ commands[a].command.command_raw \in NotJson
    /\ commands[b].stage = "done" /\ commands[b].command.command_raw \in WrongShape

\* what a schema-valid raw command asks for: its command name, its
\* device_id (None when it has none) and its parameters (None when it has none)
Asked(raw) ==
  CASE raw = "{\"command\":\"station_time\"}" ->
         [command |-> JStr("station_time"), device_id |-> None, parameters |-> None]
    [] raw = "{\"command\":\"station_time\",\"parameters\":{\"test_parameter\":5}}" ->
         [command |-> JStr("station_time"), device_id |-> None,
          parameters |-> JObj({<<"test_parameter", JNum("5")>>})]
    [] raw = "{\"command\":\"nonexistent\",\"parameters\":{\"x\":5}}" ->
         [command |-> JStr("nonexistent"), device_id |-> None,
          parameters |-> JObj({<<"x", JNum("5")>>})]
    [] raw = "{\"command\":\"station_time\",\"device_id\":\"d1\"}" ->
         [command |-> JStr("station_time"), device_id |-> JStr("d1"), parameters |-> None]
    [] raw = "{\"command\":\"nonexistent\",\"device_id\":\"d1\"}" ->
         [command |-> JStr("nonexistent"), device_id |-> JStr("d1"), parameters |-> None]
    [] raw = "{\"command\":\"station_time\",\"device_id\":\"\"}" ->
         [command |-> JStr("station_time"), device_id |-> JStr(""), parameters |-> None]

\* C15: after validate_command() on a schema-valid raw command the Command
\* is valid, with the command name, the device_id (None when absent) and
\* the parameters of the request; build_command_response(success, r) gives
\* the original request and a response of status "okay" for success and
\* "error" otherwise, with result r, and with a device_id field, equal to
\* the command's, exactly when the command has a (non-empty) device_id.
C15_ValidCommandAndResponse ==
  \A c \in ObjIds :
    LET k == commands[c]
        raw == k.command.command_raw
    IN /\ k.stage = "validated" /\ raw \notin NotJson \cup WrongShape =>
            /\ k.command.valid
            /\ k.command.command = Asked(raw).command
            /\ k.command.device_id = Asked(raw).device_id
            /\ Asked(raw).parameters # None => k.command.parameters = Asked(raw).parameters
       /\ last.op = "build_command_response" /\ last.tgt = ToString(c) =>
            /\ last.res.request = k.command.request
            /\ Item(last.res.response.o, "status") =
                 JStr(IF last.arg.success THEN "okay" ELSE "error")
            /\ Item(last.res.response.o, "result") = last.arg.command_results
            /\ HasKey(last.res.response.o, "device_id") <=> Truthy(k.command.device_id)
            /\ HasKey(last.res.response.o, "device_id") =>
                 Item(last.res.response.o, "device_id") = k.command.device_id

\* a success response was built for a valid command that names a device
C15_Witness ==
  /\ last.op = "build_command_response"
  /\ last.arg.success
  /\ commands[1].command.valid
  /\ commands[1].command.device_id = JStr("d1")
  /\ HasKey(last.res.response.o, "device_id")

\* the permission settings saved for user u permit the command
Permitted(perms, u, cmd) ==
  LET p == get_user_permissions(perms, u)
  IN p.raised = "none" /\ cmd.command.s \in p.record.permitted_commands

\* C16: the parser consults the permission manager before dispatch: a
\* command body is handed over for execution only when the permission
\* record of the command's user was found and permits the command.
C16_PermissionBeforeBodyAsStated ==
  [][\A c \in CmdIds, u \in Users, raw \in RawCommands :
       ParseCommand(c, u, raw) /\ commands'[c].stage = "queued"
         => Permitted(permissions, u, commands'[c].command)]_vars

\* C17: command bodies run on worker threads, one task per command, never
\* on the coordinating thread; while a body is running (blocked) the
\* coordinating thread is free to take the next command and to complete
\* any command whose body is over.
C17_BodiesOnWorkers ==
  \A c \in CmdIds :
    LET k == commands[c]
    IN /\ k.stage \in {"queued", "running"} => k.thread = Worker
       /\ k.starts <= 1
       /\ k.stage \in {"running", "returned"} => k.starts = 1
       /\ k.stage = "running" =>
            \A b \in CmdIds \ {c} :
              /\ commands[b].stage = "new" /\ (\A a \in CmdIds : a < b => commands[a].stage # "new")
                   => \A u \in Users, raw \in RawCommands : ENABLED ParseCommand(b, u, raw)
              /\ commands[b].stage = "queued" => ENABLED BodyStart(b)
              /\ commands[b].stage = "returned" => ENABLED CommandReturned(b)

\* a second command, submitted while the body of the first was running,
\* got its response while the first is still running
C17_Witness ==
  \E a, b \in CmdIds :
    /\ a < b
    /\ commands[a].stage = "running"
    /\ commands[b].stage = "done" /\ commands[b].starts = 1
    /\ Status(commands[b].deferred) = "okay"

-----------------------------------------------------------------------------
(* Claims on the setup commands and the construction of a pipeline *)

\* C18: run_setup_commands() runs the setup commands in configured order,
\* one at a time, and starts a command only when all before it succeeded;
\* a command for a device that is not in the pipeline fails the sequence
\* with PipelineConfigInvalid and a command that fails fails it with its
\* failure; nothing after the failing command is executed.
C18_SetupInOrder ==
  /\ \A i \in DOMAIN setup.executed : setup.executed[i] = i
  /\ Len(setup.executed) <= Len(setup.commands)
  /\ setup.running # 0 =>
       /\ setup.state = "running"
       /\ setup.running = Len(setup.executed)
       /\ Len(setup.results) = setup.running - 1
  /\ \A i \in DOMAIN setup.executed :
       i < Len(setup.executed) => setup.results[i] = "ok"
  /\ \A i \in DOMAIN setup.results :
       setup.results[i] # "ok" => setup.state = "failed" /\ setup.failed_at = i
                                  /\ setup.failure = setup.results[i]
                                  /\ Len(setup.executed) = i
  /\ \A i \in DOMAIN setup.commands :
       /\ setup.commands[i] \notin DeviceSet(SetupPipeline) \cup {"system"}
       /\ Len(setup.results) >= i - 1
       /\ setup.state # "next"
       => /\ setup.state = "failed"
          /\ setup.failed_at <= i
          /\ setup.failed_at = i => setup.failure = "PipelineConfigInvalid"
          /\ Len(setup.executed) < i
  /\ setup.state = "done" =>
       /\ Len(setup.executed) = Len(setup.commands)
       /\ \A i \in DOMAIN setup.results : setup.results[i] = "ok"

\* a sequence whose second command failed, with a third one configured
C18_Witness ==
  /\ Len(setup.commands) = 3
  /\ setup.state = "failed"
  /\ setup.failed_at = 2
  /\ setup.failure = "CommandFailed"
  /\ setup.executed = <<1, 2>>

\* what is wrong with a pipeline configuration: a device id listed twice, a
\* device id that the device registry does not have, two output devices
ListsTwice(cfg) == Cardinality({cfg[i].id : i \in DOMAIN cfg}) < Len(cfg)
NamesUnknown(cfg) == {cfg[i].id : i \in DOMAIN cfg} \ Devices # {}
ManyOutputs(cfg) == Cardinality({i \in DOMAIN cfg : cfg[i].output}) > 1

\* C19: the construction of a pipeline fails with PipelineConfigInvalid and
\* produces no pipeline when the configuration lists a device id twice,
\* names a device that the registry does not have, or has more than one
\* output device; a construction that succeeds gives a pipeline with at most
\* one output device, whose input and output devices are among its devices,
\* and which is registered with each of its devices.
C19_Construction ==
  /\ [][\A n \in ConstructIds :
          last'.op = "construct_pipeline" /\ last'.tgt = n
          /\ (ListsTwice(last'.arg) \/ NamesUnknown(last'.arg) \/ ManyOutputs(last'.arg))
            => /\ last'.res = "PipelineConfigInvalid"
               /\ constructed' = constructed
               /\ associated_pipelines' = associated_pipelines]_vars
  /\ [][\A n \in ConstructIds :
          last'.op = "construct_pipeline" /\ last'.tgt = n /\ last'.res = "ok"
            => LET cfg == last'.arg
                   pl == constructed'[n]
               IN /\ pl.built
                  /\ pl.devices = {cfg[i].id : i \in DOMAIN cfg}
                  /\ Cardinality({i \in DOMAIN cfg : cfg[i].output}) <= 1
                  /\ pl.output_device # NoDevice <=> \E i \in DOMAIN cfg : cfg[i].output
                  /\ pl.output_device # NoDevice =>
                       /\ pl.output_device \in pl.devices
                       /\ \E i \in DOMAIN cfg : cfg[i].output /\ cfg[i].id = pl.output_device
                  /\ pl.input_device # NoDevice =>
                       /\ pl.input_device \in pl.devices
                       /\ \E i \in DOMAIN cfg : cfg[i].input /\ cfg[i].id = pl.input_device
                  /\ \A d \in pl.devices : n \in Registered(associated_pipelines', d)]_vars

\* a pipeline of two devices, one of them its output device, was constructed
C19_Witness ==
  /\ last.op = "construct_pipeline" /\ last.res = "ok"
  /\ Cardinality(constructed["n1"].devices) = 2
  /\ constructed["n1"].output_device # NoDevice
  /\ \A d \in constructed["n1"].devices : "n1" \in Registered(associated_pipelines, d)

-----------------------------------------------------------------------------
(* Claims on the service registry *)

\* C20: register_service() keeps services unique per (type, id): a service
\* whose id is already registered under its type is refused with
\* ServiceAlreadyRegistered and the registry stays as it was; a service with
\* a new id under a known type, or of a new type, is added and every other
\* entry stays.
C20_ServiceRegistry ==
  [][\A p \in SessionPipelines, t \in ServiceTypes, id \in ServiceIds :
       RegisterService(p, t, id)
         => /\ <<t, id>> \in services[p] =>
                 /\ last'.res = "ServiceAlreadyRegistered"
                 /\ services' = services
            /\ <<t, id>> \notin services[p] =>
                 /\ last'.res = "ok"
                 /\ services'[p] = services[p] \cup {<<t, id>>}
                 /\ \A q \in Pipelines \ {p} : services'[q] = services[q]]_vars

\* a second id was registered under a type that had one, and a duplicate
\* was refused after that
C20_Witness ==
  /\ last.op = "register_service"
  /\ last.res = "ServiceAlreadyRegistered"
  /\ \E t \in ServiceTypes :
       Cardinality({e \in services[last.tgt] : e[1] = t}) = 2
  /\ \E e \in services[last.tgt] : e[1] = "logger"

-----------------------------------------------------------------------------
(* C28 *)

\* C28: the use count of a device is never negative; free() lowers it by one
\* when it is above zero and leaves it at zero when it is zero; free() never
\* raises, on a device that was never reserved included.
C28_UseCountFloor ==
  /\ [](\A d \in Devices : use_count[d] >= 0)
  /\ [][\A d \in Devices :
          FreeDevice(d) =>
            /\ last'.res = "ok"
            /\ use_count'[d] = IF use_count[d] > 0 THEN use_count[d] - 1 ELSE 0]_vars

\* free() on a device that was never reserved: it returned and the count is 0
C28_Witness ==
  \E d \in Devices :
    /\ last = [op |-> "free_device", tgt |-> d, res |-> "ok", arg |-> "none"]
    /\ hist[d].nres = 0
    /\ hist[d].nfree >= 1
    /\ hist[d].underflow
    /\ use_count[d] = 0

-----------------------------------------------------------------------------
(* C22 *)

\* the pipelines the calls of the next state were made on
Recipients == {calls'[i].to : i \in DOMAIN calls'}

\* C22: write_telemetry() forwards only to the pipelines registered with the
\* device whose is_active is true, and write_output() only to the registered
\* pipelines that are active and have this device as their output device;
\* the data forwarded is the data given, once per pipeline.
C22_FanOut ==
  [][\A d \in Devices :
       /\ \A s \in Streams, t \in Data :
            WriteTelemetry(d, s, t) =>
              /\ \A n \in Recipients :
                   /\ n \in Registered(associated_pipelines, d)
                   /\ PipelineViews(in_use)[n].is_active
              /\ \A i \in DOMAIN calls' :
                   /\ calls'[i].method = "write_telemetry"
                   /\ calls'[i].args = <<d, s, t>>
              /\ Len(calls') = Cardinality(Recipients)
       /\ \A o \in Data :
            WriteOutput(d, o) =>
              /\ \A n \in Recipients :
                   /\ n \in Registered(associated_pipelines, d)
                   /\ PipelineViews(in_use)[n].is_active
                   /\ PipelineViews(in_use)[n].output_device = d
              /\ \A i \in DOMAIN calls' :
                   calls'[i].method = "write_output" /\ calls'[i].args = <<o>>
              /\ Len(calls') = Cardinality(Recipients)]_vars

\* d1 is registered with two active pipelines and is the output device of pB
\* alone: its output went to pB and not to pA
C22_Witness ==
  /\ last.op = "write_output" /\ last.tgt = "d1"
  /\ associated_pipelines["d1"] = <<"pB", "pA">>
  /\ in_use["pA"] /\ in_use["pB"]
  /\ Len(calls) = 1
  /\ calls[1].to = "pB"

-----------------------------------------------------------------------------
(* C23 *)

\* C23: register_pipeline() with a pipeline whose id is already registered
\* with the device fails with PipelineAlreadyRegistered, leaves
\* associated_pipelines as it was and does not call the service-registration
\* hook; otherwise it records the pipeline and calls the hook exactly once.
C23_RegisterPipeline ==
  [][last'.op = "register_pipeline" =>
       LET d == last'.tgt
           n == last'.arg
       IN IF n \in Registered(associated_pipelines, d)
          THEN /\ last'.res = "PipelineAlreadyRegistered"
               /\ associated_pipelines' = associated_pipelines
               /\ calls' = <<>>
          ELSE /\ last'.res = "ok"
               /\ \E slot \in Slots :
                    associated_pipelines' =
                      [associated_pipelines EXCEPT ![d] = insert_key(@, n, slot)]
               /\ calls' = <<Call(d, "_register_services", <<n>>)>>]_vars

\* a second registration of the same pipeline was refused, beside another
\* registered pipeline
C23_Witness ==
  /\ last.op = "register_pipeline"
  /\ last.res = "PipelineAlreadyRegistered"
  /\ last.arg \in Registered(associated_pipelines, last.tgt)
  /\ Len(associated_pipelines[last.tgt]) = 2
  /\ calls = <<>>

-----------------------------------------------------------------------------
(* C27 *)

\* C27: a reserve() that fails with DeviceInUse has no side effect: locked
\* and use_count of every device are as before the call, and so are the
\* pipelines registered with the devices.
C27_RefusedReserve ==
  [][\A d \in Devices :
       (ReserveDevice(d) /\ last'.res = "DeviceInUse") =>
         /\ locked' = locked
         /\ use_count' = use_count
         /\ associated_pipelines' = associated_pipelines]_vars

\* a refused reserve on a locked device that has a pipeline registered
C27_Witness ==
  \E d \in Devices :
    /\ last = [op |-> "reserve_device", tgt |-> d, res |-> "DeviceInUse", arg |-> "none"]
    /\ ~allow_concurrent_use[d]
    /\ locked[d]
    /\ use_count[d] = 1
    /\ associated_pipelines[d] # <<>>

-----------------------------------------------------------------------------
(* C29 *)

\* the valid raw commands that have no parameters member
NoParameters == {raw \in RawCommands \ (NotJson \cup WrongShape) : Asked(raw).parameters = None}

\* C29, as stated: after a successful validate_command() of a request with
\* no parameters member, the parameters of the Command are the empty mapping.
C29_ParametersDefaultAsStated ==
  \A c \in ObjIds :
    LET k == commands[c]
    IN (k.stage = "validated" /\ k.command.valid /\ k.command.command_raw \in NoParameters) =>
         k.command.parameters = JObj({})

-----------------------------------------------------------------------------
(* C30 *)

\* C30, as stated: after a validate_command() that failed with
\* CommandMalformed or CommandInvalidSchema the parsed form of the request is
\* absent, the Command is not valid, and its command and device_id are unset.
C30_ParsedOnlyIfValidAsStated ==
  \A c \in ObjIds :
    LET k == commands[c]
    IN (k.stage = "validated" /\ k.validation \in {"CommandMalformed", "CommandInvalidSchema"}) =>
         /\ k.command.command_json = None
         /\ ~k.command.valid
         /\ k.command.command = None
         /\ k.command.device_id = None

-----------------------------------------------------------------------------
(* C21 *)

\* C21: load_service(type) returns the registered service of that type whose
\* id is the active selection; it fails with ServiceTypeNotFound when there
\* is no active selection for the type, services of that type being
\* registered or not, and with ServiceInvalid when the selected id is not
\* registered under that type.
C21_LoadService ==
  [][\A p \in Pipelines, t \in ServiceTypes :
       LoadService(p, t) =>
         LET selected == active_services[p][t]
         IN /\ selected = NoService <=> last'.res = "ServiceTypeNotFound"
            /\ (selected # NoService /\ <<t, selected>> \notin services[p]) <=>
                 last'.res = "ServiceInvalid"
            /\ (selected # NoService /\ <<t, selected>> \in services[p]) <=>
                 last'.res = "ok"
            /\ last'.res = "ok" =>
                 /\ last'.arg.service = <<t, selected>>
                 /\ last'.arg.service \in services'[p]
            /\ last'.res # "ok" => last'.arg.service = NoLoaded]_vars

\* the session selected the sgp4 tracker and no logger: the logger could not
\* be loaded although a logger is registered
C21_Witness ==
  \E p \in Pipelines :
    /\ last.op = "load_service" /\ last.tgt = p
    /\ last.arg.type = "logger"
    /\ last.res = "ServiceTypeNotFound"
    /\ current_session[p] # NoSession
    /\ active_services[p]["tracker"] = "sgp4"
    /\ <<"logger", "basic">> \in services[p]
    /\ load_service(services[p], active_services[p], "tracker").service = <<"tracker", "sgp4">>

-----------------------------------------------------------------------------
(* C26 *)

\* the state of the pipelines and devices is left as it was
PipelinesUntouched ==
  UNCHANGED <<allow_concurrent_use, locked, use_count, in_use, services, active_services,
              current_session, associated_pipelines>>

\* C26: write_pipeline_output() and write_telemetry_datum() make no call when
\* the pipeline has no current session and otherwise make one call on the
\* session with exactly their arguments; write_to_pipeline() makes no call
\* when the pipeline has no input device and otherwise one call on the input
\* device with its argument; none of them changes the pipeline.
C26_WritePaths ==
  [][\A p \in Pipelines :
       /\ \A o \in Data :
            WritePipelineOutput(p, o) =>
              /\ calls' = IF current_session[p] = NoSession THEN <<>>
                          ELSE <<Call(current_session[p], "write_to_output_stream", <<o>>)>>
              /\ PipelinesUntouched
       /\ \A src \in Sources, s \in Streams, ts \in Timestamps, t \in Data :
            WriteTelemetryDatum(p, src, s, ts, t) =>
              /\ calls' = IF current_session[p] = NoSession THEN <<>>
                          ELSE <<Call(current_session[p], "write_telemetry_datum",
                                      <<src, s, ts, t>>)>>
              /\ PipelinesUntouched
       /\ \A i \in Data :
            WriteToPipeline(p, i) =>
              /\ calls' = IF PipelineInput[p] = "none" THEN <<>>
                          ELSE <<Call(PipelineInput[p], "write_to_device", <<i>>)>>
              /\ PipelinesUntouched]_vars

\* output written to a pipeline whose session was unregistered, while the
\* other pipeline has a session: no call was made
C26_Witness ==
  /\ last.op = "write_pipeline_output" /\ last.tgt = "pA"
  /\ current_session["pA"] = NoSession
  /\ current_session["pC"] # NoSession
  /\ calls = <<>>

-----------------------------------------------------------------------------
(* C24 *)

\* the device configuration lists a device id twice
DuplicateIds(device_settings) ==
  \E i, j \in DOMAIN device_settings :
    i # j /\ device_settings[i].id = device_settings[j].id

\* entry j of the device configuration has the id of an entry before it, and
\* the first such entry
Repeats(device_settings, j) ==
  \E i \in 1..(j - 1) : device_settings[i].id = device_settings[j].id
FirstRepeat(device_settings) ==
  CHOOSE j \in DOMAIN device_settings :
    /\ Repeats(device_settings, j)
    /\ \A k \in 1..(j - 1) : ~Repeats(device_settings, k)

\* the entries before entry j whose driver cannot be loaded
FailsBefore(device_settings, j) ==
  {i \in 1..(j - 1) : load_driver(device_settings[i].driver) # "ok"}

\* C24, as stated: the device registry is populated once. An initialization
\* of the empty registry from a configuration that lists an id twice fails
\* with DeviceConfigInvalid; an initialization that succeeds fills the empty
\* registry with the configured ids; an initialization of a registry that
\* holds drivers fails with DevicesAlreadyInitialized and leaves it as it
\* is; get_device_driver(id) returns the driver registered under id and
\* fails with DeviceNotFound when there is none.
C24_DeviceRegistryAsStated ==
  [][/\ (last'.op = "initialize_devices") =>
          LET device_settings == last'.arg
          IN
            /\ devices # {} =>
                 last'.res = "DevicesAlreadyInitialized" /\ devices' = devices
            /\ (devices = {} /\ device_settings # NoDeviceSettings
                  /\ DuplicateIds(device_settings)) =>
                 last'.res = "DeviceConfigInvalid"
            /\ last'.res = "ok" =>
                 /\ devices = {}
                 /\ devices' = {device_settings[i].id : i \in DOMAIN device_settings}
                 /\ devices' # {}
     /\ (last'.op = "get_device_driver" /\ GetDeviceDriver(last'.tgt)) =>
          LET device_id == last'.tgt
          IN IF device_id \in devices
             THEN last'.res = "ok" /\ last'.arg = device_id
             ELSE last'.res = "DeviceNotFound" /\ last'.arg = "none"]_vars

\* C24: the device registry is populated once. An initialization of the
\* empty registry from a configuration that lists an id twice never
\* succeeds: it fails with DeviceConfigInvalid at the first entry that
\* repeats an id when the drivers of all entries before that entry load,
\* and with the error of the first driver that does not load otherwise; in
\* both cases the registry keeps the drivers loaded before the failure. An
\* initialization that succeeds fills the empty registry with the
\* configured ids; an initialization of a registry that holds drivers fails
\* with DevicesAlreadyInitialized and leaves it as it is;
\* get_device_driver(id) returns the driver registered under id and fails
\* with DeviceNotFound when there is none.
C24_DeviceRegistry ==
  [][/\ (last'.op = "initialize_devices") =>
          LET device_settings == last'.arg
          IN
            /\ devices # {} =>
                 last'.res = "DevicesAlreadyInitialized" /\ devices' = devices
            /\ (devices = {} /\ device_settings # NoDeviceSettings
                  /\ DuplicateIds(device_settings)) =>
                 LET j == FirstRepeat(device_settings)
                     fails == FailsBefore(device_settings, j)
                 IN IF fails = {}
                    THEN /\ last'.res = "DeviceConfigInvalid"
                         /\ devices' = {device_settings[i].id : i \in 1..(j - 1)}
                    ELSE LET f == CHOOSE i \in fails : \A k \in fails : i <= k
                         IN /\ last'.res = load_driver(device_settings[f].driver)
                            /\ devices' = {device_settings[i].id : i \in 1..(f - 1)}
            /\ last'.res = "ok" =>
                 /\ devices = {}
                 /\ devices' = {device_settings[i].id : i \in DOMAIN device_settings}
                 /\ devices' # {}
     /\ (last'.op = "get_device_driver" /\ GetDeviceDriver(last'.tgt)) =>
          LET device_id == last'.tgt
          IN IF device_id \in devices
             THEN last'.res = "ok" /\ last'.arg = device_id
             ELSE last'.res = "DeviceNotFound" /\ last'.arg = "none"]_vars

\* a configuration that lists d1 twice was refused with DeviceConfigInvalid
\* at the second entry: the registry holds the driver of the first, which
\* get_device_driver returns, and none for d2
C24_Witness ==
  /\ last.op = "initialize_devices"
  /\ last.res = "DeviceConfigInvalid"
  /\ DuplicateIds(last.arg)
  /\ last.arg[1].id = "d1"
  /\ devices = {"d1"}
  /\ get_device_driver(devices, "d1").driver = "d1"
  /\ get_device_driver(devices, "d2").res = "DeviceNotFound"

-----------------------------------------------------------------------------
(* C25 *)

\* C25, as stated: purge_user_permissions(age) returns having removed every
\* permission record older than age and kept every younger one; for a user
\* whose record was removed get_user_permissions then fails with
\* PermissionsUserNotFound.
C25_PurgeAsStated ==
  [][\A age \in 0..MaxTime, current_time \in 0..MaxTime :
       PurgeUserPermissions(age, current_time) =>
         /\ last'.res = "none"
         /\ \A u \in Users :
              permissions[u] # NoRecord =>
                /\ current_time - permissions[u].generated_at > age =>
                     /\ permissions'[u] = NoRecord
                     /\ get_user_permissions(permissions', u).raised =
                          "PermissionsUserNotFound"
                /\ current_time - permissions[u].generated_at < age =>
                     permissions'[u] = permissions[u]]_vars

-----------------------------------------------------------------------------
(* C31 *)

\* the failure that reached the parser for a command: the one its body
\* raised, the one its validation failed with, or the one _run_command raised
OriginalFailure(k) ==
  IF k.outcome.raised # NoFailure THEN k.outcome.raised
  ELSE IF k.validation # "none"
       THEN validate_command(Command(k.command.request, k.command.command_raw)).failure
       ELSE IF k.handler = NoHandler THEN run_command(k.command).raised
            ELSE NoFailure

\* C31, as stated: for every failure that reaches the parser, a CommandError
\* raised by a body with or without error data included, the result of the
\* error response has error_message equal to the text of that failure, and
\* every key of the error data the failure carried.
C31_ErrorResultAsStated ==
  \A c \in CmdIds :
    LET k == commands[c]
        f == OriginalFailure(k)
    IN (k.stage = "done" /\ f # NoFailure) =>
         /\ Item(Result(k.deferred).o, "error_message") = JStr(f.message)
         /\ f.error_parameters # None =>
              \A e \in f.error_parameters.o : e \in Result(k.deferred).o

-----------------------------------------------------------------------------
(* C39 *)

\* C39: the body of a command is started at most once per parse_command()
\* call, and only for a command that passed validation and whose
\* command_<name> method was found on the handler chosen for it; a command
\* that fails validation or the resolution of its handler has no body run.
C39_BodyAtMostOnce ==
  \A c \in CmdIds :
    LET k == commands[c]
    IN /\ k.starts <= 1
       /\ k.starts = 1 =>
            /\ k.command.valid /\ k.validation = "none"
            /\ k.command.command_raw \notin NotJson \cup WrongShape
            /\ k.handler # NoHandler
            /\ k.handler = "system" => k.command.command.s \in SystemCommands
            /\ k.handler \in Devices => k.command.command.s \in DeviceCommands[k.handler]
       /\ (k.stage # "new" /\ (k.validation # "none" \/ k.handler = NoHandler)) =>
            k.starts = 0 /\ k.stage = "done" /\ k.outcome = NoOutcome

\* the body of one command ran once and is over, and a command with an
\* unknown name was answered without any body
C39_Witness ==
  \E a, b \in CmdIds :
    /\ commands[a].stage = "done" /\ commands[a].starts = 1
    /\ commands[a].outcome.raised = NoFailure
    /\ commands[b].stage = "done" /\ commands[b].starts = 0
    /\ commands[b].command.valid
    /\ commands[b].command.command = JStr("nonexistent")
    /\ commands[b].command.device_id = None

-----------------------------------------------------------------------------
(* C40 *)

\* the schema-valid command whose device_id is the empty string
EmptyDeviceId == "{\"command\":\"station_time\",\"device_id\":\"\"}"

\* C40: a schema-valid command whose device_id is the empty string is
\* treated as a system command: it is valid, its body is handed to the
\* system handler, and its response has no device_id field.
C40_EmptyDeviceId ==
  \A c \in CmdIds :
    LET k == commands[c]
    IN (k.stage # "new" /\ k.command.command_raw = EmptyDeviceId) =>
         /\ k.command.valid
         /\ k.command.device_id = JStr("")
         /\ k.handler = "system"
         /\ k.stage = "done" =>
              /\ k.starts = 1
              /\ k.deferred.fired = "callback"
              /\ ~HasKey(k.deferred.response.o, "device_id")

\* the command with the empty device_id was run by the system handler and
\* answered with a success response without device_id
C40_Witness ==
  \E c \in CmdIds :
    /\ commands[c].command.command_raw = EmptyDeviceId
    /\ commands[c].stage = "done"
    /\ commands[c].handler = "system"
    /\ Status(commands[c].deferred) = "okay"
    /\ ~HasKey(commands[c].deferred.response.o, "device_id")

-----------------------------------------------------------------------------
(* C32 *)

\* the deferred of command k has delivered one response envelope: its
\* callback fired with a success or an error envelope
Delivered(k) ==
  /\ k.stage = "done"
  /\ k.deferred.fired = "callback"
  /\ Status(k.deferred) \in {"okay", "error"}
  /\ HasKey(k.deferred.response.o, "result")

\* C32: every parse_command() call eventually delivers a response envelope,
\* given that a body that was started returns or raises; the deferred stays
\* unfired until then, fires with a success or an error envelope, and never
\* changes once it has fired.
C32_OneResponse ==
  /\ \A c \in CmdIds : (commands[c].stage # "new") ~> Delivered(commands[c])
  /\ [][\A c \in CmdIds :
          /\ commands[c].stage = "done" => commands'[c] = commands[c]
          /\ commands'[c].stage \notin {"new", "done"} =>
               commands'[c].deferred = NotFired
          /\ commands'[c].stage = "done" => Delivered(commands'[c])]_vars

\* one command was answered with a success envelope after its body
\* returned, another with an error envelope after its body raised
C32_Witness ==
  \E a, b \in CmdIds :
    /\ Delivered(commands[a]) /\ commands[a].starts = 1
    /\ commands[a].outcome.raised = NoFailure
    /\ Status(commands[a].deferred) = "okay"
    /\ Delivered(commands[b]) /\ commands[b].starts = 1
    /\ commands[b].outcome.raised # NoFailure
    /\ Status(commands[b].deferred) = "error"

-----------------------------------------------------------------------------
(* C33 *)

\* the steps that save records: the callback _save_permissions, called
\* directly or at the end of add_user_permissions
SaveOps == {"save_permissions", "add_user_permissions"}

\* C33: get_user_permissions(u) returns the stored record exactly when a
\* record for u has been saved and not removed by a purge, whatever the
\* age of the record; in every other case it raises PermissionsUserNotFound;
\* it leaves the cache unchanged. Stated on the steps: a call of
\* get_user_permissions changes nothing, raises exactly when the cache has
\* no record of the user and returns the record of the cache otherwise,
\* with no look at generated_at; a save that returns for a user leaves a
\* record of that user which the lookup finds; the record of a user changes
\* only in a save or a purge, and a save removes none; a purge removes no
\* record younger than age.
C33_StoredRecord ==
  [][/\ (last'.op = "get_user_permissions" /\ GetUserPermissions(last'.tgt)) =>
          LET u == last'.tgt
          IN /\ permissions' = permissions
             /\ IF permissions[u] = NoRecord
                THEN last'.res = "PermissionsUserNotFound" /\ last'.arg = NoRecord
                ELSE last'.res = "none" /\ last'.arg = permissions[u]
     /\ (last'.op \in SaveOps /\ last'.res = "none") =>
          LET found == get_user_permissions(permissions', last'.tgt)
          IN found.raised = "none" /\ found.record.user_id = last'.tgt
     /\ \A u \in Users :
          permissions'[u] # permissions[u] =>
            /\ last'.op \in SaveOps \cup {"purge_user_permissions"}
            /\ last'.op \in SaveOps => permissions'[u] # NoRecord
     /\ last'.op = "purge_user_permissions" =>
          \A age \in 0..MaxTime, current_time \in 0..MaxTime :
            PurgeUserPermissions(age, current_time) =>
              \A u \in Users :
                current_time - permissions[u].generated_at < age =>
                  permissions'[u] = permissions[u]]_vars

\* the lookup of u1 returned the record of the cache, the oldest there can
\* be, while u2 has none
C33_Witness ==
  /\ last.op = "get_user_permissions" /\ last.tgt = "u1"
  /\ last.res = "none"
  /\ last.arg = permissions["u1"]
  /\ last.arg.user_id = "u1" /\ last.arg.generated_at = 0
  /\ permissions["u2"] = NoRecord

-----------------------------------------------------------------------------
(* C34 *)

\* C34, as stated: whatever reserve_pipeline() and free_pipeline() calls
\* were made, free_pipeline() on a pipeline that is not in use included, no
\* two pipelines that share a device that is not concurrent-capable are in
\* use at the same time.
C34_MutualExclusionAsStated ==
  \A a \in Pipelines, b \in Pipelines :
    (a # b /\ in_use[a] /\ in_use[b]) =>
      \A d \in DeviceSet(a) \cap DeviceSet(b) : allow_concurrent_use[d]

-----------------------------------------------------------------------------
(* C35 *)

\* C35, as stated: whatever reserve_pipeline() and free_pipeline() calls
\* were made, every pipeline that is in use has all of its devices active
\* and all of its devices that are not concurrent-capable locked.
C35_LocksCoupledAsStated ==
  \A p \in Pipelines :
    in_use[p] =>
      \A d \in DeviceSet(p) :
        /\ is_active(DevState, d)
        /\ ~allow_concurrent_use[d] => is_locked(DevState, d)

-----------------------------------------------------------------------------
(* C36 *)

\* C36: a reserve_pipeline() call that fails changes the state of no device:
\* the use count and the locked flag of every device of the system, the
\* concurrent-capable devices reserved earlier in the attempt and the device
\* that refused included, are what they were before the call.
C36_FailedReserveNoOp ==
  [][\A p \in Pipelines :
       (ReservePipeline(p) /\ last'.res # "ok") =>
         \A d \in Devices :
           /\ use_count'[d] = use_count[d]
           /\ locked'[d] = locked[d]]_vars

\* pB has failed on d1, held by pA, after reserving the concurrent-capable
\* d3 that pC holds: d3 is back at one reservation
C36_Witness ==
  /\ last = [op |-> "reserve_pipeline", tgt |-> "pB", res |-> "PipelineInUse", arg |-> "none"]
  /\ in_use["pA"] /\ in_use["pC"] /\ ~in_use["pB"]
  /\ ~allow_concurrent_use["d1"] /\ locked["d1"]
  /\ allow_concurrent_use["d3"] /\ use_count["d3"] = 1

-----------------------------------------------------------------------------
(* C37 *)

\* C37: when devices are reserved and freed only through reserve_pipeline()
\* and free_pipeline(), in every state in which no pipeline is in use every
\* device has use count 0 and is not locked, and reserve_pipeline() succeeds
\* for every pipeline.
C37_NoLeak ==
  (\A p \in Pipelines : ~in_use[p]) =>
    /\ \A d \in Devices : use_count[d] = 0 /\ ~locked[d]
    /\ \A p \in Pipelines : reserve_pipeline(DevState, in_use, p).res = "ok"

\* the last pipeline in use was freed: nothing is in use, and a device that
\* is not concurrent-capable can be reserved again
C37_Witness ==
  /\ last.op = "free_pipeline"
  /\ \A p \in Pipelines : ~in_use[p]
  /\ ~allow_concurrent_use["d1"] /\ allow_concurrent_use["d2"]
  /\ ReserveSucceeds(DevState, "d1")

-----------------------------------------------------------------------------
(* C38 *)

\* the worker threads whose body has called reserve_device on device d
Callers(d) == {t \in WorkerThreads : workers[t].device = d}

\* C38, as stated: when command bodies on worker threads call
\* reserve_device on the same free device that is not concurrent-capable at
\* the same time, under every interleaving of their steps at most one call
\* succeeds, and once the calls have returned the use count of the device
\* is 1.
C38_ExclusiveAcrossThreadsAsStated ==
  \A d \in RaceDevices :
    ~allow_concurrent_use[d] =>
      /\ Cardinality({t \in Callers(d) : workers[t].res = "ok"}) <= 1
      /\ (Callers(d) # {} /\ \A t \in Callers(d) : workers[t].pc = "done") =>
           use_count[d] = 1

====
